---- MODULE Spec2Model ----
(***************************************************************************)
(* A model of EaselJS: the Ticker frame scheduler (src/utils/Ticker.js),   *)
(* the pointer-interaction state machine and the rendering calls of Stage  *)
(* (display/Stage.js, with events/EaselMouseEvent.js), the instruction     *)
(* buffer of Graphics (display/Graphics.js) and ColorMatrixFilter          *)
(* (filters/ColorMatrixFilter.js).                                         *)
(*                                                                         *)
(* JavaScript is single threaded: every handler runs to completion.  A     *)
(* handler that calls back into application code (a listener's tick) is    *)
(* split at the callback, so that the application code's own calls into    *)
(* the library are interleaved where the program interleaves them.         *)
(***************************************************************************)
EXTENDS Integers, Sequences, FiniteSets, TLC

(***************************************************************************)
(* Bounds of the model.                                                    *)
(***************************************************************************)
\* listener objects that expose a tick method are 1..NumTickObjs
NumTickObjs == 2
\* no more than MaxFires frame callbacks are run
MaxFires == 2
\* the listeners' ticks of one fire make at most MaxFireOps calls into Ticker
MaxFireOps == 1
\* the clock advances by 1..MaxDelta milliseconds between two fires
MaxDelta == 2
\* the value of Date.getTime() when the page is loaded
StartClock == 5
\* the canvas is CanvasW pixels wide and CanvasH pixels high
CanvasW == 2
CanvasH == 1
\* setInterval hands out the timer ids 1..MaxTimerId
MaxTimerId == 2
\* the page waits up to MaxWait milliseconds before it adds the first listener
MaxWait == 1
\* where only the clock is studied, no more than MaxClockFires callbacks are run
MaxClockFires == 4

\* frame callbacks of a ticker left running: more than Ticker._times holds
MaxLongFires == 102
\* no more than MaxGCalls recording calls are made on the Graphics instance
MaxGCalls == 4
\* calls of applyFilter
MaxFilterCalls == 2
\* the canvases are CanvasSide pixels wide and high
CanvasSide == 2

(***************************************************************************)
(* Ticker: state.                                                          *)
(***************************************************************************)
VARIABLES
  listeners,      \* Ticker._listeners
  pauseable,      \* Ticker._pauseable
  paused,         \* Ticker._paused
  inited,         \* Ticker._inited
  pausedTime,     \* Ticker._pausedTime
  ticks,          \* Ticker._ticks
  pausedTickers,  \* Ticker._pausedTickers
  lastTime,       \* Ticker._lastTime
  times,          \* Ticker._times
  clock,          \* what new Date().getTime() returns
  pendingFrames,  \* frame callbacks requested and not yet run
  tpc,            \* position of Ticker._tick: "idle", "loop" or "callback"
  t_listeners,    \* _tick's local listeners (the slice)
  t_alias,        \* _tick's local pauseable is still the array Ticker._pauseable
  t_pauseable,    \* the contents of _tick's local pauseable once it is not
  t_paused,       \* _tick's local paused
  t_elapsed,      \* _tick's local elapsedTime
  t_time,         \* _tick's local time
  t_i,            \* _tick's loop index i
  t_ops,          \* the calls into Ticker made by the listeners' ticks of this fire
  regArg,         \* history: the opt_pauseable each object was last registered with
  h_snapArgs,     \* history: regArg of the objects of t_listeners when the fire began
  h_called,       \* history: the tick calls of the running fire, in order
  h_prevClock,    \* history: the clock at the previous fire, -1 before the first
  h_ops,          \* history: the calls into Ticker made by the ticks of this fire
  h_fires,        \* history: the number of fires
  h_firesPaused,  \* history: the number of fires that began while paused
  h_pausedAtFire, \* history: Ticker._paused when the running fire began
  h_readd,        \* history: the last call, when it added a registered object
  h_startClock    \* history: the clock at the first addListener, -1 before it

tickerVars == <<listeners, pauseable, paused, inited, pausedTime, ticks,
                pausedTickers, lastTime, times, clock, pendingFrames, tpc,
                t_listeners, t_alias, t_pauseable, t_paused, t_elapsed, t_time,
                t_i, t_ops, regArg, h_snapArgs, h_called, h_prevClock, h_ops,
                h_fires, h_firesPaused, h_pausedAtFire, h_readd, h_startClock>>

(***************************************************************************)
(* Stage: state.                                                           *)
(***************************************************************************)
VARIABLES
  canvas,                 \* Stage.canvas: "null" or "canvas"
  mouseX,                 \* Stage.mouseX
  mouseY,                 \* Stage.mouseY
  mouseInBounds,          \* Stage.mouseInBounds
  activeEaselMouseEvent,  \* Stage._activeEaselMouseEvent: <<>> (null) or <<event>>
  activeMouseEvent,       \* Stage._activeMouseEvent: <<>> (undefined, null) or <<event>>
  activeMouseTarget,      \* Stage._activeMouseTarget: "null" or a node
  mouseOverIntervalID,    \* Stage._mouseOverIntervalID
  mouseOverX,             \* Stage._mouseOverX
  mouseOverY,             \* Stage._mouseOverY
  mouseOverTarget,        \* Stage._mouseOverTarget
  timers,                 \* the running setInterval timers: [id, period]
  nextTimerId,            \* the id the next setInterval returns
  scene,                  \* the display list: for each x, its nodes front to back
  pointerOver,            \* the pointer is over the canvas element (not at first)
  s_last,                 \* history: the last native event: "none", "down", "move", "up"
  s_calls,                \* history: the callbacks the last native event invoked, in order
  s_move,                 \* history: where the last native move went, see MoveCase
  s_presses,              \* history: native presses since the last release (2: two or more)
  s_relPresses,           \* history: s_presses when the last release came, if s_last = "up"
  s_pressHit,             \* history: what the hit-test of the last press returned
  s_relHit,               \* history: what the hit-test at the last release returned
  s_attached,             \* history: the callbacks the last onPress attached to its event
  a_last,                 \* history: "poll" or "dblclick" when the last step was one, else "none"
  a_calls,                \* history: the callbacks that poll or double-click invoked, in order
  a_pre,                  \* history: _mouseOverTarget before that poll
  a_hit,                  \* history: the target its hit-test found; "skipped": none was made
  s_page,                 \* history: <<pageX, pageY>> of the last step when it was a native move
  s_lastIn,               \* history: the last position a move found in bounds, and whether a
                          \* move has reached the stage without a canvas since: <<[x, y, unbound]>>
  e_freq,                 \* history: the argument of the last enableMouseOver, -1: no call yet
  o_inside,               \* history: the nodes whose last over or out event was onMouseOver
  o_bad,                  \* history: the nodes that got two onMouseOver, or an onMouseOut
                          \* without an onMouseOver before it, with no event of the other kind
                          \* in between
  autoClear,              \* Stage.autoClear
  tickOnUpdate,           \* Stage.tickOnUpdate
  snapToPixelEnabled,     \* Stage.snapToPixelEnabled
  Stage_snapToPixelEnabled, \* the static Stage._snapToPixelEnabled
  r_last,                 \* history: "update", "clear", "toDataURL" or "clone" when the last
                          \* step was that call, else "none"
  r_log,                  \* history: what that call did, in order: the calls it made on the
                          \* 2D context, the canvas, the window and the display list
  r_error                 \* history: the error that call raised, or "none"

stageVars == <<canvas, mouseX, mouseY, mouseInBounds, activeEaselMouseEvent,
               activeMouseEvent, activeMouseTarget, mouseOverIntervalID, mouseOverX,
               mouseOverY, mouseOverTarget, timers, nextTimerId, scene, pointerOver,
               s_last, s_calls,
               s_move, s_presses, s_relPresses, s_pressHit, s_relHit, s_attached,
               a_last, a_calls, a_pre, a_hit, s_page, s_lastIn, e_freq, o_inside, o_bad,
               autoClear, tickOnUpdate, snapToPixelEnabled, Stage_snapToPixelEnabled,
               r_last, r_log, r_error>>

(***************************************************************************)
(* Graphics: state of one instance.  An instruction list is a sequence of  *)
(* commands; a style field is <<>> (null) or a list of commands.           *)
(***************************************************************************)
VARIABLES
  g_instructions,             \* Graphics._instructions
  g_oldInstructions,          \* Graphics._oldInstructions
  g_activeInstructions,       \* Graphics._activeInstructions
  g_fillInstructions,         \* Graphics._fillInstructions
  g_strokeInstructions,       \* Graphics._strokeInstructions
  g_strokeStyleInstructions,  \* Graphics._strokeStyleInstructions
  g_active,                   \* Graphics._active
  g_dirty,                    \* Graphics._dirty
  g_ctx,                      \* the commands the last call executed on a context
  g_n,                        \* the recording calls made so far
  g_last,                     \* history: the method called last, "none" at first
  g_prev,                     \* history: the method called before it
  g_pre,                      \* history: the fields as they were before the last call
  g_ctxPrev,                  \* history: what the call before the last executed
  g_rebuilt,                  \* history: the last call ran _updateInstructions
  g_recorded                  \* history: the path commands of the drawing calls made since
                              \* construction or the last clear, in order

graphicsVars == <<g_instructions, g_oldInstructions, g_activeInstructions,
                  g_fillInstructions, g_strokeInstructions, g_strokeStyleInstructions,
                  g_active, g_dirty, g_ctx, g_n, g_last, g_prev, g_pre, g_ctxPrev,
                  g_rebuilt, g_recorded>>

(***************************************************************************)
(* ColorMatrixFilter: two 2D contexts and the last call of applyFilter.    *)
(***************************************************************************)
VARIABLES
  f_pixels,               \* the pixels of each context: [context -> [position -> pixel]]
  f_tainted,              \* the contexts whose getImageData is rejected (cross-origin content)
  f_n,                    \* the number of calls of applyFilter so far
  f_args,                 \* history: the arguments of the last call, <<>> before the first
  f_ret,                  \* history: what the last call returned: "true", "false", "none"
  f_threw,                \* history: the last call propagated an exception
  f_writes                \* history: the putImageData calls of the last call, in order

filterVars == <<f_pixels, f_tainted, f_n, f_args, f_ret, f_threw, f_writes>>

(***************************************************************************)
(* The display list of the demo game: its stage, a second container, and   *)
(* the nodes the game adds and removes.                                    *)
(***************************************************************************)
VARIABLES
  children,               \* Container.children of each container: a sequence of nodes
  parent,                 \* DisplayObject.parent of each node: a container or "null"
  c_last,                 \* history: the last call, [op, c, n], and the parent n had, was
  c_seen                  \* history: the kinds of addChild made so far: of a child of
                          \* another container ("moved"), of a child of the same ("again")

treeVars == <<children, parent, c_last, c_seen>>

vars == <<tickerVars, stageVars, graphicsVars, filterVars, treeVars>>

\* the object 0 exposes no tick method
Objs == 0..NumTickObjs

HasTick(o) == o # 0

\* what a caller can pass as opt_pauseable
OptArgs == {"true", "false", "undefined"}

\* JavaScript's ToBoolean on an opt_pauseable argument
Truthy(a) == a = "true"

\* Ticker._startTime is set to 0 and assigned nowhere else
startTime == 0

\* the capacity of Ticker._times
MaxTimes == 100

(***************************************************************************)
(* Arrays.  Index arguments are JavaScript's, from 0.                      *)
(***************************************************************************)
\* Array.prototype.indexOf, -1 when o is not an element
IndexOf(arr, o) ==
  IF \E k \in 1..Len(arr) : arr[k] = o
  THEN (CHOOSE k \in 1..Len(arr) : arr[k] = o /\ \A j \in 1..(k - 1) : arr[j] # o) - 1
  ELSE -1

\* arr.splice(index, 1): nothing is removed when index is past the end
Splice1(arr, index) ==
  IF index >= 0 /\ index < Len(arr)
  THEN [k \in 1..(Len(arr) - 1) |-> IF k <= index THEN arr[k] ELSE arr[k + 1]]
  ELSE arr

\* arr[index] = v: the array grows when index is at or past its end; the holes
\* this leaves read as undefined, which is falsy where a flag is read
SetAt(arr, index, v) ==
  [k \in 1..(IF index + 1 > Len(arr) THEN index + 1 ELSE Len(arr)) |->
     IF k = index + 1 THEN v ELSE IF k <= Len(arr) THEN arr[k] ELSE FALSE]

\* arr[index] read as a condition: undefined (past the end) is falsy
FlagAt(arr, index) == index < Len(arr) /\ arr[index + 1]

\* Math.min
Min(a, b) == IF a < b THEN a ELSE b

(***************************************************************************)
(* Ticker: the public methods.  Application code calls them between        *)
(* handlers (tpc = "idle") or from a listener's tick (tpc = "callback").    *)
(***************************************************************************)
AppRuns == tpc = "idle" \/ (tpc = "callback" /\ t_ops < MaxFireOps)

\* a call made from a listener's tick is counted
CountOp == t_ops' = IF tpc = "callback" THEN t_ops + 1 ELSE t_ops

\* the two arrays after Ticker.removeListener(o)
ListenersWithout(o) == Splice1(listeners, IndexOf(listeners, o))

\* a removeListener that forgets the flag of the listener it removes
PauseableKept(o) == pauseable

PauseableWithout(o) ==
  IF IndexOf(listeners, o) # -1 THEN Splice1(pauseable, IndexOf(listeners, o)) ELSE pauseable

tickLocals == <<t_listeners, t_alias, t_pauseable, t_paused, t_elapsed, t_time, t_i>>

counters == <<pausedTime, ticks, pausedTickers, lastTime, times, clock>>

fireHistory == <<h_snapArgs, h_called, h_prevClock, h_fires, h_firesPaused, h_pausedAtFire>>

\* a call made from a listener's tick is noted: its name and its object
NoteOp(op, o) == h_ops' = IF tpc = "callback" THEN h_ops \cup {<<op, o>>} ELSE h_ops

\* an addListener that requests a frame callback every time
FramesRearmed == pendingFrames + 1

\* the frame callbacks pending after addListener: the first call requests one
FramesAfterAdd == IF inited THEN pendingFrames ELSE pendingFrames + 1

addListener(o, opt_pauseable) ==
  /\ AppRuns
  /\ CountOp
  /\ inited' = TRUE
  /\ pendingFrames' = FramesAfterAdd
  /\ h_startClock' = IF inited THEN h_startClock ELSE clock
  /\ pauseable' = SetAt(PauseableWithout(o), Len(ListenersWithout(o)), Truthy(opt_pauseable))
  /\ listeners' = Append(ListenersWithout(o), o)
  /\ regArg' = [regArg EXCEPT ![o] = opt_pauseable]
  /\ NoteOp("addListener", o)
  /\ h_readd' = IF IndexOf(listeners, o) # -1
                THEN <<[o |-> o, arg |-> opt_pauseable, len |-> Len(listeners)]>>
                ELSE <<>>
  /\ UNCHANGED <<paused, tpc, tickLocals, counters, fireHistory, stageVars, graphicsVars, filterVars, treeVars>>

removeListener(o) ==
  /\ AppRuns
  /\ CountOp
  /\ listeners' = ListenersWithout(o)
  /\ pauseable' = PauseableWithout(o)
  /\ regArg' = [regArg EXCEPT ![o] = "none"]
  /\ NoteOp("removeListener", o)
  /\ h_readd' = <<>>
  /\ UNCHANGED <<paused, inited, pendingFrames, tpc, tickLocals, counters, fireHistory,
                 h_startClock,
                 stageVars, graphicsVars, filterVars, treeVars>>

\* both fields get a new array: a running _tick keeps the old pauseable array
removeAllListeners ==
  /\ AppRuns
  /\ CountOp
  /\ listeners' = <<>>
  /\ pauseable' = <<>>
  /\ t_alias' = IF tpc = "callback" THEN FALSE ELSE t_alias
  /\ t_pauseable' = IF tpc = "callback" /\ t_alias THEN pauseable ELSE t_pauseable
  /\ regArg' = [o \in Objs |-> "none"]
  /\ NoteOp("removeAllListeners", 0)
  /\ h_readd' = <<>>
  /\ UNCHANGED <<paused, inited, pendingFrames, tpc, t_listeners, t_paused, t_elapsed,
                 t_time, t_i, counters, fireHistory, h_startClock,
                 stageVars, graphicsVars, filterVars, treeVars>>

setPaused(value) ==
  /\ AppRuns
  /\ CountOp
  /\ paused' = value
  /\ NoteOp("setPaused", 0)
  /\ h_readd' = <<>>
  /\ UNCHANGED <<listeners, pauseable, inited, pendingFrames, tpc, tickLocals, counters,
                 regArg, fireHistory, h_startClock,
                 stageVars, graphicsVars, filterVars, treeVars>>

getPaused == paused

\* Ticker._getTime
GetTimeNow == clock

getTime(pauseableArg) == GetTimeNow - startTime - (IF pauseableArg THEN pausedTime ELSE 0)

getTicks(pauseableArg) == ticks - (IF pauseableArg THEN pausedTickers ELSE 0)

(***************************************************************************)
(* Ticker._tick, in three steps: up to the loop, one iteration of the      *)
(* loop (to the call of listener.tick, when it is made), and the end.      *)
(***************************************************************************)
\* the platform runs a requested frame callback, d milliseconds after the last;
\* limit bounds the number of callbacks the model runs
TickFire(d, limit) ==
  /\ tpc = "idle"
  /\ pendingFrames > 0
  /\ ticks < limit
  /\ clock' = clock + d
  /\ pendingFrames' = (pendingFrames - 1) + 1
  /\ ticks' = ticks + 1
  /\ t_time' = (clock + d) - startTime
  /\ t_elapsed' = ((clock + d) - startTime) - lastTime
  /\ t_paused' = paused
  /\ pausedTickers' = IF paused THEN pausedTickers + 1 ELSE pausedTickers
  /\ pausedTime' = IF paused THEN pausedTime + (((clock + d) - startTime) - lastTime)
                             ELSE pausedTime
  /\ lastTime' = (clock + d) - startTime
  /\ t_alias' = TRUE
  /\ t_pauseable' = <<>>
  /\ t_listeners' = listeners
  /\ t_i' = 0
  /\ t_ops' = 0
  /\ tpc' = "loop"
  /\ h_snapArgs' = [k \in 1..Len(listeners) |-> regArg[listeners[k]]]
  /\ h_called' = <<>>
  /\ h_prevClock' = IF ticks = 0 THEN -1 ELSE clock
  /\ h_ops' = {}
  /\ h_fires' = h_fires + 1
  /\ h_firesPaused' = IF paused THEN h_firesPaused + 1 ELSE h_firesPaused
  /\ h_pausedAtFire' = paused
  /\ h_readd' = <<>>
  /\ UNCHANGED <<listeners, pauseable, paused, inited, times, regArg, h_startClock,
                 stageVars, graphicsVars, filterVars, treeVars>>

TickBegin(d) == TickFire(d, MaxFires)

\* the flag p the loop reads for index i
LoopFlag == IF t_alias THEN FlagAt(pauseable, t_i) ELSE FlagAt(t_pauseable, t_i)

\* a loop that reads Ticker._paused anew at each listener
PausedLive == paused

\* the local paused of _tick, read by the loop
LoopPaused == t_paused

\* one iteration: the listener is skipped, or its tick is called
TickLoop ==
  /\ tpc = "loop"
  /\ t_i < Len(t_listeners)
  /\ h_pausedAtFire' = h_pausedAtFire
  /\ IF (LoopPaused /\ LoopFlag) \/ ~HasTick(t_listeners[t_i + 1])
     THEN /\ t_i' = t_i + 1
          /\ UNCHANGED <<tpc, h_called>>
     ELSE /\ tpc' = "callback"
          /\ h_called' = Append(h_called, [l |-> t_listeners[t_i + 1], arg |-> t_elapsed])
          /\ UNCHANGED t_i
  /\ UNCHANGED <<listeners, pauseable, paused, inited, pendingFrames, counters,
                 t_listeners, t_alias, t_pauseable, t_paused, t_elapsed, t_time, t_ops,
                 regArg, h_snapArgs, h_prevClock, h_ops, h_fires, h_firesPaused,
                 h_readd, h_startClock,
                 stageVars, graphicsVars, filterVars, treeVars>>

\* listener.tick returns
TickReturn ==
  /\ tpc = "callback"
  /\ tpc' = "loop"
  /\ t_i' = t_i + 1
  /\ UNCHANGED <<listeners, pauseable, paused, inited, pendingFrames, counters,
                 t_listeners, t_alias, t_pauseable, t_paused, t_elapsed, t_time, t_ops,
                 regArg, fireHistory, h_ops, h_readd, h_startClock,
                 stageVars, graphicsVars, filterVars, treeVars>>

\* the loop has run: what is left of _tick is the bookkeeping of times
FireDone == tpc = "loop" /\ t_i >= Len(t_listeners)

\* a buffer that drops the timestamp it has just been given
TimesNewestDropped ==
  IF Len(times) + 1 > MaxTimes THEN times ELSE <<t_time>> \o times

\* Ticker._times.unshift(time); if (Ticker._times.length > 100) { Ticker._times.pop(); }
TimesAfter ==
  IF Len(times) + 1 > MaxTimes
  THEN SubSeq(<<t_time>> \o times, 1, Len(times))
  ELSE <<t_time>> \o times

\* after the loop; the locals go with the return
TickEnd ==
  /\ FireDone
  /\ times' = TimesAfter
  /\ tpc' = "idle"
  /\ t_listeners' = <<>>
  /\ t_alias' = TRUE
  /\ t_pauseable' = <<>>
  /\ t_paused' = FALSE
  /\ t_elapsed' = 0
  /\ t_time' = 0
  /\ t_i' = 0
  /\ t_ops' = 0
  /\ h_snapArgs' = <<>>
  /\ h_called' = <<>>
  /\ h_ops' = {}
  /\ h_pausedAtFire' = FALSE
  /\ UNCHANGED <<listeners, pauseable, paused, inited, pendingFrames, pausedTime, ticks,
                 pausedTickers, lastTime, clock, regArg, h_prevClock, h_fires,
                 h_firesPaused, h_readd, h_startClock,
                 stageVars, graphicsVars, filterVars, treeVars>>

TickerInit ==
  /\ listeners = <<>>
  /\ pauseable = <<>>
  /\ paused = FALSE
  /\ inited = FALSE
  /\ pausedTime = 0
  /\ ticks = 0
  /\ pausedTickers = 0
  /\ lastTime = 0
  /\ times = <<>>
  /\ clock = StartClock
  /\ pendingFrames = 0
  /\ tpc = "idle"
  /\ t_listeners = <<>>
  /\ t_alias = TRUE
  /\ t_pauseable = <<>>
  /\ t_paused = FALSE
  /\ t_elapsed = 0
  /\ t_time = 0
  /\ t_i = 0
  /\ t_ops = 0
  /\ regArg = [o \in Objs |-> "none"]
  /\ h_snapArgs = <<>>
  /\ h_called = <<>>
  /\ h_prevClock = -1
  /\ h_ops = {}
  /\ h_fires = 0
  /\ h_firesPaused = 0
  /\ h_pausedAtFire = FALSE
  /\ h_readd = <<>>
  /\ h_startClock = -1

TickerNext ==
  \/ \E o \in Objs, a \in OptArgs : addListener(o, a)
  \/ \E o \in Objs : removeListener(o)
  \/ removeAllListeners
  \/ \E v \in BOOLEAN : setPaused(v)
  \/ \E d \in 1..MaxDelta : TickBegin(d)
  \/ TickLoop
  \/ TickReturn
  \/ TickEnd

(***************************************************************************)
(* Ticker: the clock.  Time passes before the first listener is added;     *)
(* the measured frame rate is a quotient, kept as a reduced fraction.      *)
(***************************************************************************)
\* the page is loaded some time before the application adds a listener
TimePasses(d) ==
  /\ tpc = "idle"
  /\ ~inited
  /\ clock + d <= StartClock + MaxWait
  /\ clock' = clock + d
  /\ UNCHANGED <<listeners, pauseable, paused, inited, pausedTime, ticks, pausedTickers,
                 lastTime, times, pendingFrames, tpc, tickLocals, t_ops, regArg,
                 fireHistory, h_ops, h_readd, h_startClock, stageVars, graphicsVars, filterVars, treeVars>>

ClockFire(d) == TickFire(d, MaxClockFires)

\* a ticker left running: a frame callback every millisecond
LongFire == TickFire(1, MaxLongFires)

RECURSIVE GCD(_, _)
GCD(a, b) == IF b = 0 THEN a ELSE GCD(b, a % b)

\* the number n / d, d > 0
Ratio(n, d) == [num |-> n \div GCD(n, d), den |-> d \div GCD(n, d)]

MinusOne == [num |-> -1, den |-> 1]

\* ticks = ticks || 5; ticks = Math.min(Ticker._times.length - 1, ticks)
SampleSize(ticksArg) == Min(Len(times) - 1, IF ticksArg = 0 THEN 5 ELSE ticksArg)

\* a frame rate that forgets to average over the sample
FpsOverTotal(t) == Ratio(1000, times[1] - times[t + 1])

\* 1000 / ((_times[0] - _times[ticks]) / ticks); the quotient is exact when
\* the difference is a multiple of ticks, and is kept exact here otherwise
FpsOver(t) == Ratio(1000 * t, times[1] - times[t + 1])

getMeasuredFPS(ticksArg) ==
  IF Len(times) < 2 THEN MinusOne ELSE FpsOver(SampleSize(ticksArg))

\* the clock alone: one listener, more callbacks
ClockNext ==
  \/ \E d \in 1..MaxWait : TimePasses(d)
  \/ \E a \in OptArgs : addListener(1, a)
  \/ \E v \in BOOLEAN : setPaused(v)
  \/ \E d \in 1..MaxDelta : ClockFire(d)
  \/ TickLoop
  \/ TickReturn
  \/ TickEnd

\* a ticker left running until Ticker._times has filled up
LongRunNext ==
  \/ \E a \in OptArgs : addListener(1, a)
  \/ LongFire
  \/ TickLoop
  \/ TickReturn
  \/ TickEnd

(***************************************************************************)
(* Values.  A coordinate field holds a number, null or NaN.                *)
(***************************************************************************)
Num(n) == [k |-> "num", v |-> n]

Null == [k |-> "null", v |-> 0]

NaN == [k |-> "nan", v |-> 0]

\* the boolean true, where a number can be passed too
True == [k |-> "true", v |-> 0]

(***************************************************************************)
(* The display list and its hit-test.  Container._getObjectsUnderPoint is  *)
(* not among the sources; it is modelled from the specification, 4.3: the  *)
(* front-most node under the point whose interaction is enabled.           *)
(***************************************************************************)
Nodes == {"X", "Y", "Z"}

\* the handlers the application has set on each node
NodeHandlers(n) ==
  CASE n = "X" -> {"onPress", "onClick", "onMouseOver"}
    [] n = "Y" -> {"onClick", "onDoubleClick"}
    [] n = "Z" -> {"onMouseOver", "onMouseOut"}
    [] OTHER -> {}

\* what lies under the columns of pixels, front to back, one column after the
\* other and over again; the application scrolls the display list by columns
Stacks == <<(<<"X">>), (<<"Z", "Y">>), (<<>>)>>

Layout(shift) == [x \in 0..(CanvasW - 1) |-> Stacks[((x + shift) % Len(Stacks)) + 1]]

\* the mouseEvents argument as the bit mask the hit-test uses: true & 1 is 1
ToMask(arg) == IF arg.k = "true" THEN 1 ELSE arg.v

\* a node is tested when it has a handler of a kind the mask asks for
InteractionEnabled(n, mask) ==
  \/ mask % 2 = 1 /\ NodeHandlers(n) \cap {"onPress", "onClick", "onDoubleClick"} # {}
  \/ mask \div 2 = 1 /\ NodeHandlers(n) \cap {"onMouseOver", "onMouseOut"} # {}

\* a null coordinate is used as the number 0; NaN is no position
_getObjectsUnderPoint(x, y, mouseEvents) ==
  LET px == IF x.k = "nan" THEN -1 ELSE x.v
      py == IF y.k = "nan" THEN -1 ELSE y.v
      st == IF px \in 0..(CanvasW - 1) /\ py \in 0..(CanvasH - 1) THEN scene[px] ELSE <<>>
      hits == SelectSeq(st, LAMBDA n : InteractionEnabled(n, ToMask(mouseEvents)))
  IN IF hits = <<>> THEN "null" ELSE Head(hits)

(***************************************************************************)
(* The page: the canvas element and its offsetParent ancestors.            *)
(***************************************************************************)
OffsetChain == <<[offsetLeft |-> 1, offsetTop |-> 0], [offsetLeft |-> 0, offsetTop |-> 1]>>

RECURSIVE SumLeft(_)
SumLeft(chain) == IF chain = <<>> THEN 0 ELSE Head(chain).offsetLeft + SumLeft(Tail(chain))

RECURSIVE SumTop(_)
SumTop(chain) == IF chain = <<>> THEN 0 ELSE Head(chain).offsetTop + SumTop(Tail(chain))

\* the page coordinates a native event can carry
PageXs == 0..(SumLeft(OffsetChain) + CanvasW)

PageYs == 0..(SumTop(OffsetChain) + CanvasH)

\* the stage-level handlers the application has set
StageHandlers == {"onMouseMove", "onMouseUp", "onMouseDown"}

\* a callback invoked: its name and the node it was invoked on ("stage", "event")
Call(fn, on) == [fn |-> fn, on |-> on]

\* what an onPress handler can assign to its event
Attachable == SUBSET {"onMouseMove", "onMouseUp"}

stageHistory == <<s_last, s_calls, s_move, s_presses, s_relPresses, s_pressHit, s_relHit,
                  s_attached>>

\* a step that is neither a poll nor a double-click
AuxReset ==
  /\ a_last' = "none"
  /\ a_calls' = <<>>
  /\ a_pre' = "null"
  /\ a_hit' = "null"

\* a step that is not a native move
NotAMove ==
  /\ s_page' = <<>>
  /\ UNCHANGED s_lastIn

renderFlags == <<autoClear, tickOnUpdate, snapToPixelEnabled>>

\* a step that is not a call of update, clear, toDataURL or clone
NotARender ==
  /\ r_last' = "none"
  /\ r_log' = <<>>
  /\ r_error' = "none"
  /\ UNCHANGED <<renderFlags, Stage_snapToPixelEnabled>>

mouseOverVars == <<mouseOverIntervalID, mouseOverX, mouseOverY, mouseOverTarget, timers,
                   nextTimerId, e_freq, o_inside, o_bad>>

(***************************************************************************)
(* Stage: the native event handlers.                                       *)
(***************************************************************************)
\* the mouseEvents argument of the hit-tests of press and release
HitMask == IF mouseOverIntervalID # Null THEN Num(3) ELSE Num(1)

\* a position relative to the canvas's parent, not to the page
LocalYInParent(pageY) == pageY - OffsetChain[1].offsetTop

\* Stage._updateMousePosition: the values of mouseInBounds, mouseX and mouseY after it
LocalX(pageX) == pageX - SumLeft(OffsetChain)

LocalY(pageY) == pageY - SumTop(OffsetChain)

InBounds(pageX, pageY) ==
  /\ LocalX(pageX) >= 0
  /\ LocalY(pageY) >= 0
  /\ LocalX(pageX) < CanvasW
  /\ LocalY(pageY) < CanvasH

_updateMousePosition(pageX, pageY) ==
  /\ mouseInBounds' = InBounds(pageX, pageY)
  /\ mouseX' = IF InBounds(pageX, pageY) THEN Num(LocalX(pageX)) ELSE mouseX
  /\ mouseY' = IF InBounds(pageX, pageY) THEN Num(LocalY(pageY)) ELSE mouseY

\* the callbacks _handleMouseMove invokes when it does not return early
MoveCalls ==
  (IF "onMouseMove" \in StageHandlers THEN <<Call("onMouseMove", "stage")>> ELSE <<>>)
  \o (IF activeEaselMouseEvent # <<>> /\ "onMouseMove" \in activeEaselMouseEvent[1]
      THEN <<Call("onMouseMove", "event")>> ELSE <<>>)

\* where a native move goes: without a canvas, or from inside or outside the
\* bounds (mouseInBounds) to inside or outside
MoveCase(pageX, pageY) ==
  IF canvas = "null" THEN "nocanvas"
  ELSE IF InBounds(pageX, pageY) THEN (IF mouseInBounds THEN "inside" ELSE "entered")
  ELSE (IF mouseInBounds THEN "left" ELSE "outside")

\* the press the history is about is over once its release has come
CycleOver == s_last = "up"

_handleMouseMove(pageX, pageY) ==
  /\ IF canvas = "null"
     THEN /\ mouseX' = Null
          /\ mouseY' = Null
          /\ s_calls' = <<>>
          /\ UNCHANGED mouseInBounds
     ELSE /\ _updateMousePosition(pageX, pageY)
          /\ s_calls' = IF ~mouseInBounds /\ ~InBounds(pageX, pageY) THEN <<>> ELSE MoveCalls
  /\ pointerOver' = InBounds(pageX, pageY)
  /\ s_page' = <<pageX, pageY>>
  /\ s_lastIn' =
       IF canvas = "null"
       THEN [i \in DOMAIN s_lastIn |-> [s_lastIn[i] EXCEPT !.unbound = TRUE]]
       ELSE IF InBounds(pageX, pageY)
            THEN <<[x |-> LocalX(pageX), y |-> LocalY(pageY), unbound |-> FALSE]>>
            ELSE s_lastIn
  /\ s_last' = "move"
  /\ s_move' = MoveCase(pageX, pageY)
  /\ s_relPresses' = 0
  /\ s_relHit' = "null"
  /\ s_pressHit' = IF CycleOver THEN "null" ELSE s_pressHit
  /\ s_attached' = IF CycleOver THEN {} ELSE s_attached
  /\ AuxReset
  /\ NotARender
  /\ UNCHANGED <<canvas, activeEaselMouseEvent, activeMouseEvent, activeMouseTarget,
                 mouseOverVars, scene, s_presses, tickerVars, graphicsVars, filterVars, treeVars>>

\* the target of a press
PressTarget == _getObjectsUnderPoint(mouseX, mouseY, HitMask)

\* The listener of mousedown is on the canvas element: a press reaches the stage
\* when the pointer is over it.
\* attach: what the target's onPress handler assigns to the event it is given
_handleMouseDown(attach) ==
  /\ pointerOver
  /\ (PressTarget # "null" /\ "onPress" \in NodeHandlers(PressTarget)) \/ attach = {}
  /\ s_calls' =
       (IF "onMouseDown" \in StageHandlers THEN <<Call("onMouseDown", "stage")>> ELSE <<>>)
       \o (IF PressTarget # "null" /\ "onPress" \in NodeHandlers(PressTarget)
           THEN <<Call("onPress", PressTarget)>> ELSE <<>>)
  /\ activeEaselMouseEvent' =
       IF PressTarget # "null" /\ "onPress" \in NodeHandlers(PressTarget) /\ attach # {}
       THEN <<attach>> ELSE activeEaselMouseEvent
  /\ activeMouseTarget' = IF PressTarget # "null" THEN PressTarget ELSE activeMouseTarget
  /\ s_last' = "down"
  /\ s_move' = "none"
  /\ s_presses' = IF s_presses >= 1 THEN 2 ELSE 1
  /\ s_relPresses' = 0
  /\ s_pressHit' = PressTarget
  /\ s_attached' = attach
  /\ s_relHit' = "null"
  /\ AuxReset
  /\ NotAMove
  /\ NotARender
  /\ UNCHANGED <<canvas, mouseX, mouseY, mouseInBounds, activeMouseEvent, mouseOverVars,
                 scene, pointerOver, tickerVars, graphicsVars, filterVars, treeVars>>

\* the hit-test of a release, with the arguments _handleMouseUp passes
ReleaseHit == _getObjectsUnderPoint(mouseX, mouseY, True)

\* a release that does not look where the pointer is
ClickDispatchedAnywhere ==
  /\ activeMouseTarget # "null"
  /\ "onClick" \in NodeHandlers(activeMouseTarget)

\* the condition under which a release dispatches onClick to the pressed target
ClickDispatched ==
  /\ activeMouseTarget # "null"
  /\ "onClick" \in NodeHandlers(activeMouseTarget)
  /\ ReleaseHit = activeMouseTarget

_handleMouseUp ==
  /\ s_calls' =
       (IF "onMouseUp" \in StageHandlers THEN <<Call("onMouseUp", "stage")>> ELSE <<>>)
       \o (IF activeMouseEvent # <<>> /\ "onMouseUp" \in activeMouseEvent[1]
           THEN <<Call("onMouseUp", "event")>> ELSE <<>>)
       \o (IF ClickDispatched THEN <<Call("onClick", activeMouseTarget)>> ELSE <<>>)
  /\ activeMouseEvent' = <<>>
  /\ activeMouseTarget' = "null"
  /\ s_last' = "up"
  /\ s_move' = "none"
  /\ s_presses' = 0
  /\ s_relPresses' = s_presses
  /\ s_pressHit' = IF CycleOver THEN "null" ELSE s_pressHit
  /\ s_attached' = IF CycleOver THEN {} ELSE s_attached
  /\ s_relHit' = ReleaseHit
  /\ AuxReset
  /\ NotAMove
  /\ NotARender
  /\ UNCHANGED <<canvas, mouseX, mouseY, mouseInBounds, activeEaselMouseEvent,
                 mouseOverVars, scene, pointerOver, tickerVars, graphicsVars, filterVars, treeVars>>

\* JavaScript's a == b on coordinate fields: NaN equals nothing, null only null
LooseEq(a, b) == a.k # "nan" /\ b.k # "nan" /\ a.k = b.k /\ a.v = b.v

\* _testMouseOver returns at once: the pointer is where the last test found it
OverSkipped == LooseEq(mouseX, mouseOverX) /\ LooseEq(mouseY, mouseOverY) /\ mouseInBounds

\* the target of a poll that does not return at once
OverTarget == IF mouseInBounds THEN _getObjectsUnderPoint(mouseX, mouseY, Num(3)) ELSE "null"

\* the callbacks a poll invokes when its target is not _mouseOverTarget: out, then over
OverCallsReversed ==
  (IF OverTarget # "null" /\ "onMouseOver" \in NodeHandlers(OverTarget)
   THEN <<Call("onMouseOver", OverTarget)>> ELSE <<>>)
  \o (IF mouseOverTarget # "null" /\ "onMouseOut" \in NodeHandlers(mouseOverTarget)
      THEN <<Call("onMouseOut", mouseOverTarget)>> ELSE <<>>)

OverCalls ==
  (IF mouseOverTarget # "null" /\ "onMouseOut" \in NodeHandlers(mouseOverTarget)
   THEN <<Call("onMouseOut", mouseOverTarget)>> ELSE <<>>)
  \o (IF OverTarget # "null" /\ "onMouseOver" \in NodeHandlers(OverTarget)
      THEN <<Call("onMouseOver", OverTarget)>> ELSE <<>>)

\* the nodes that listen to both onMouseOver and onMouseOut
OverListeners == {n \in Nodes : {"onMouseOver", "onMouseOut"} \subseteq NodeHandlers(n)}

\* the over and out events of a list of callbacks, told to the history
RECURSIVE InsideAfter(_, _)
InsideAfter(inside, calls) ==
  IF calls = <<>> THEN inside
  ELSE InsideAfter(IF Head(calls).fn = "onMouseOver" THEN inside \cup {Head(calls).on}
                   ELSE inside \ {Head(calls).on}, Tail(calls))

RECURSIVE BadAfter(_, _, _)
BadAfter(bad, inside, calls) ==
  IF calls = <<>> THEN bad
  ELSE BadAfter(IF /\ Head(calls).on \in OverListeners
                   /\ (Head(calls).fn = "onMouseOver") = (Head(calls).on \in inside)
                THEN bad \cup {Head(calls).on} ELSE bad,
                InsideAfter(inside, <<Head(calls)>>), Tail(calls))

\* Stage._testMouseOver, called by the interval timer that enableMouseOver set
_testMouseOver ==
  /\ timers # {}
  /\ a_last' = "poll"
  /\ a_pre' = mouseOverTarget
  /\ IF OverSkipped
     THEN /\ a_hit' = "skipped"
          /\ a_calls' = <<>>
          /\ UNCHANGED <<mouseOverX, mouseOverY, mouseOverTarget>>
     ELSE /\ a_hit' = OverTarget
          /\ mouseOverX' = IF mouseInBounds THEN mouseX ELSE mouseOverX
          /\ mouseOverY' = IF mouseInBounds THEN mouseY ELSE mouseOverY
          /\ a_calls' = IF mouseOverTarget # OverTarget THEN OverCalls ELSE <<>>
          /\ mouseOverTarget' = OverTarget
  /\ o_inside' = InsideAfter(o_inside, a_calls')
  /\ o_bad' = BadAfter(o_bad, o_inside, a_calls')
  /\ UNCHANGED e_freq
  /\ NotAMove
  /\ NotARender
  /\ UNCHANGED <<canvas, mouseX, mouseY, mouseInBounds, activeEaselMouseEvent,
                 activeMouseEvent, activeMouseTarget, mouseOverIntervalID, timers,
                 nextTimerId, scene, pointerOver, stageHistory, tickerVars, graphicsVars, filterVars, treeVars>>

\* the callbacks _handleDoubleClick invokes
DoubleClickCalls ==
  (IF "onDoubleClick" \in StageHandlers THEN <<Call("onDoubleClick", "stage")>> ELSE <<>>)
  \o (IF PressTarget # "null" /\ "onDoubleClick" \in NodeHandlers(PressTarget)
      THEN <<Call("onDoubleClick", PressTarget)>> ELSE <<>>)

\* Stage._handleDoubleClick: the listener of dblclick is on the window
_handleDoubleClick ==
  /\ a_last' = "dblclick"
  /\ a_pre' = "null"
  /\ a_hit' = PressTarget
  /\ a_calls' = DoubleClickCalls
  /\ NotAMove
  /\ NotARender
  /\ UNCHANGED <<canvas, mouseX, mouseY, mouseInBounds, activeEaselMouseEvent,
                 activeMouseEvent, activeMouseTarget, mouseOverVars, scene, pointerOver,
                 stageHistory, tickerVars, graphicsVars, filterVars, treeVars>>

(***************************************************************************)
(* Stage: what the application does between native events.                 *)
(***************************************************************************)
\* the frequencies the application passes to enableMouseOver
Frequencies == {0, 25, 100}

\* an enableMouseOver that cancels no timer
TimersKept == timers

\* if (this._mouseOverIntervalID) { clearInterval(this._mouseOverIntervalID); ... }
TimersCleared == {t \in timers : Num(t.id) # mouseOverIntervalID}

enableMouseOver(frequency) ==
  /\ frequency <= 0 \/ nextTimerId <= MaxTimerId
  /\ IF frequency <= 0
     THEN /\ timers' = TimersCleared
          /\ mouseOverIntervalID' = Null
          /\ UNCHANGED <<mouseOverX, mouseOverTarget, nextTimerId>>
     ELSE /\ timers' = TimersCleared \cup {[id |-> nextTimerId,
                                             period |-> 1000 \div Min(50, frequency)]}
          /\ mouseOverIntervalID' = Num(nextTimerId)
          /\ nextTimerId' = nextTimerId + 1
          /\ mouseOverX' = NaN
          /\ mouseOverTarget' = "null"
  /\ e_freq' = frequency
  /\ UNCHANGED <<o_inside, o_bad>>
  /\ AuxReset
  /\ NotAMove
  /\ NotARender
  /\ UNCHANGED <<canvas, mouseX, mouseY, mouseInBounds, activeEaselMouseEvent,
                 activeMouseEvent, activeMouseTarget, mouseOverY, scene, pointerOver,
                 stageHistory, tickerVars, graphicsVars, filterVars, treeVars>>

\* the application assigns stage.canvas
SetCanvas(c) ==
  /\ canvas' = c
  /\ AuxReset
  /\ NotAMove
  /\ NotARender
  /\ UNCHANGED <<mouseX, mouseY, mouseInBounds, activeEaselMouseEvent, activeMouseEvent,
                 activeMouseTarget, mouseOverVars, scene, pointerOver, stageHistory,
                 tickerVars, graphicsVars, filterVars, treeVars>>

\* the application moves the nodes of the display list
SceneChange(shift) ==
  /\ scene' = Layout(shift)
  /\ AuxReset
  /\ NotAMove
  /\ NotARender
  /\ UNCHANGED <<canvas, mouseX, mouseY, mouseInBounds, activeEaselMouseEvent,
                 activeMouseEvent, activeMouseTarget, mouseOverVars, pointerOver,
                 stageHistory, tickerVars, graphicsVars, filterVars, treeVars>>

(***************************************************************************)
(* Stage: rendering.  A call is recorded by what it does to the 2D context  *)
(* of the canvas, to the canvas, to the window and to the display list.     *)
(* Container._tick, Container.draw and DisplayObject.cloneProps are not     *)
(* among the sources: a call of one of them is one entry of the record.     *)
(***************************************************************************)
\* everything of the stage that a rendering call leaves as it is
pointerState == <<mouseX, mouseY, mouseInBounds, activeEaselMouseEvent, activeMouseEvent,
                  activeMouseTarget, mouseOverVars, scene, pointerOver, stageHistory>>

\* Stage.clear on a stage with a canvas
ClearLog == <<"ctx.setTransform", "ctx.clearRect">>

\* an update that ticks the display list before it clears the canvas
UpdateLogTickFirst ==
  (IF tickOnUpdate THEN <<"_tick">> ELSE <<>>)
  \o (IF autoClear THEN ClearLog ELSE <<>>)
  \o <<"draw">>

\* Stage.update on a stage with a canvas
UpdateLog ==
  (IF autoClear THEN ClearLog ELSE <<>>)
  \o (IF tickOnUpdate THEN <<"_tick">> ELSE <<>>)
  \o <<"draw">>

update ==
  /\ r_last' = "update"
  /\ r_error' = "none"
  /\ IF canvas = "null"
     THEN /\ r_log' = <<>>
          /\ UNCHANGED Stage_snapToPixelEnabled
     ELSE /\ r_log' = UpdateLog
          /\ Stage_snapToPixelEnabled' = snapToPixelEnabled
  /\ AuxReset
  /\ NotAMove
  /\ UNCHANGED <<canvas, pointerState, renderFlags, tickerVars, graphicsVars, filterVars, treeVars>>

Stage_clear ==
  /\ r_last' = "clear"
  /\ r_error' = "none"
  /\ r_log' = IF canvas = "null" THEN <<>> ELSE ClearLog
  /\ AuxReset
  /\ NotAMove
  /\ UNCHANGED <<canvas, pointerState, renderFlags, Stage_snapToPixelEnabled, tickerVars,
                 graphicsVars, filterVars, treeVars>>

\* the backgroundColor argument of toDataURL: none, or a color
Backgrounds == {"undefined", "#fff"}

\* Stage.toDataURL on a stage with a canvas
DataURLLog(backgroundColor) ==
  <<"canvas.getContext">>
  \o (IF backgroundColor # "undefined"
      THEN <<"ctx.getImageData", "ctx.globalCompositeOperation=", "ctx.fillStyle=",
             "ctx.fillRect">>
      ELSE <<>>)
  \o <<"canvas.toDataURL">>
  \o (IF backgroundColor # "undefined"
      THEN <<"ctx.clearRect", "ctx.putImageData", "ctx.globalCompositeOperation=">>
      ELSE <<>>)

\* this.canvas.getContext('2d') on a stage without a canvas raises a TypeError
toDataURL(backgroundColor) ==
  /\ r_last' = "toDataURL"
  /\ r_error' = IF canvas = "null" THEN "TypeError" ELSE "none"
  /\ r_log' = IF canvas = "null" THEN <<>> ELSE DataURLLog(backgroundColor)
  /\ AuxReset
  /\ NotAMove
  /\ UNCHANGED <<canvas, pointerState, renderFlags, Stage_snapToPixelEnabled, tickerVars,
                 graphicsVars, filterVars, treeVars>>

\* Stage._enableMouseEvents on a stage whose canvas is c: three listeners are
\* added to the window, then one to the canvas, which is an error without one
EnableLog(c) ==
  <<"window.addEventListener(mouseup)", "window.addEventListener(mousemove)",
    "window.addEventListener(dblclick)">>
  \o (IF c = "null" THEN <<>> ELSE <<"canvas.addEventListener(mousedown)">>)

EnableError(c) == IF c = "null" THEN "TypeError" ELSE "none"

\* new Stage(c): Container.call(this), this.canvas = c, this._enableMouseEvents(true)
NewStageLog(c) == <<"Container.call">> \o EnableLog(c)

\* Stage.clone: var o = new Stage(null); this.cloneProps(o); return o;
clone ==
  /\ r_last' = "clone"
  /\ r_error' = EnableError("null")
  /\ r_log' = NewStageLog("null")
                \o (IF EnableError("null") = "none" THEN <<"cloneProps", "return o">> ELSE <<>>)
  /\ AuxReset
  /\ NotAMove
  /\ UNCHANGED <<canvas, pointerState, renderFlags, Stage_snapToPixelEnabled, tickerVars,
                 graphicsVars, filterVars, treeVars>>

\* the application assigns the public properties autoClear and tickOnUpdate
SetFlags(a, t) ==
  /\ autoClear' = a
  /\ tickOnUpdate' = t
  /\ UNCHANGED snapToPixelEnabled
  /\ r_last' = "none"
  /\ r_log' = <<>>
  /\ r_error' = "none"
  /\ AuxReset
  /\ NotAMove
  /\ UNCHANGED <<canvas, pointerState, Stage_snapToPixelEnabled, tickerVars, graphicsVars, filterVars, treeVars>>

StageInit ==
  /\ canvas = "canvas"
  /\ mouseX = Null
  /\ mouseY = Null
  /\ mouseInBounds = FALSE
  /\ activeEaselMouseEvent = <<>>
  /\ activeMouseEvent = <<>>
  /\ activeMouseTarget = "null"
  /\ mouseOverIntervalID = Null
  /\ mouseOverX = Num(0)
  /\ mouseOverY = Num(0)
  /\ mouseOverTarget = "null"
  /\ timers = {}
  /\ nextTimerId = 1
  /\ scene = Layout(0)
  /\ pointerOver = FALSE
  /\ s_last = "none"
  /\ s_calls = <<>>
  /\ s_move = "none"
  /\ s_presses = 0
  /\ s_relPresses = 0
  /\ s_pressHit = "null"
  /\ s_relHit = "null"
  /\ s_attached = {}
  /\ a_last = "none"
  /\ a_calls = <<>>
  /\ a_pre = "null"
  /\ a_hit = "null"
  /\ s_page = <<>>
  /\ s_lastIn = <<>>
  /\ e_freq = -1
  /\ o_inside = {}
  /\ o_bad = {}
  /\ autoClear = TRUE
  /\ tickOnUpdate = TRUE
  /\ snapToPixelEnabled = FALSE
  /\ Stage_snapToPixelEnabled = FALSE
  /\ r_last = "none"
  /\ r_log = <<>>
  /\ r_error = "none"

StageNext ==
  \/ \E px \in PageXs, py \in PageYs : _handleMouseMove(px, py)
  \/ \E attach \in Attachable : _handleMouseDown(attach)
  \/ _handleMouseUp
  \/ \E f \in {0, 25} : enableMouseOver(f)
  \/ \E c \in {"null", "canvas"} : SetCanvas(c)
  \/ \E shift \in 0..(Len(Stacks) - 1) : SceneChange(shift)

\* presses, double-clicks and releases over a display list that changes
PressNext ==
  \/ \E px \in PageXs, py \in PageYs : _handleMouseMove(px, py)
  \/ \E attach \in Attachable : _handleMouseDown(attach)
  \/ _handleMouseUp
  \/ _handleDoubleClick
  \/ \E shift \in 0..(Len(Stacks) - 1) : SceneChange(shift)

\* the application renders, unbinds and binds the canvas, and native events arrive
RenderNext ==
  \/ update
  \/ Stage_clear
  \/ \E bg \in Backgrounds : toDataURL(bg)
  \/ clone
  \/ \E a \in BOOLEAN, t \in BOOLEAN : SetFlags(a, t)
  \/ \E c \in {"null", "canvas"} : SetCanvas(c)
  \/ \E px \in PageXs, py \in PageYs : _handleMouseMove(px, py)
  \/ \E attach \in Attachable : _handleMouseDown(attach)
  \/ _handleMouseUp
  \/ _handleDoubleClick

\* the pointer moves over a display list that changes, and the interval timer polls
OverNext ==
  \/ \E px \in PageXs, py \in PageYs : _handleMouseMove(px, py)
  \/ _testMouseOver
  \/ \E f \in Frequencies : enableMouseOver(f)
  \/ \E c \in {"null", "canvas"} : SetCanvas(c)
  \/ \E shift \in 0..(Len(Stacks) - 1) : SceneChange(shift)

(***************************************************************************)
(* Graphics.  A command is the context function it will apply (f) and its  *)
(* parameters: a property name and value for _setProp, and for a path      *)
(* function the call that recorded it (pt) and its place in that call (k), *)
(* which stand for its coordinates.  hf and hs are history: the fill and   *)
(* the stroke that were set when the command was recorded.                 *)
(***************************************************************************)
Command(f, name, val, pt, k, hf, hs) ==
  [f |-> f, name |-> name, val |-> val, pt |-> pt, k |-> k, hf |-> hf, hs |-> hs]

\* Graphics.beginCmd, Graphics.fillCmd, Graphics.strokeCmd
beginCmd == Command("beginPath", "", "", 0, 0, "-", "-")

fillCmd == Command("fill", "", "", 0, 0, "-", "-")

strokeCmd == Command("stroke", "", "", 0, 0, "-", "-")

\* new Graphics.Command(this._setProp, [name, value])
SetProp(name, value) == Command("_setProp", name, value, 0, 0, "-", "-")

\* the value of the fill and of the stroke now set, "none" when null
CurFill == IF g_fillInstructions = <<>> THEN "none" ELSE g_fillInstructions[1].val

CurStroke == IF g_strokeInstructions = <<>> THEN "none" ELSE g_strokeInstructions[1].val

\* new Graphics.Command(this._ctx.<f>, [...]) made by the recording call under way
PathCmd(f, k) == Command(f, "", "", g_n + 1, k, CurFill, CurStroke)

\* the functions of the context that build the path
PathFns == {"moveTo", "lineTo", "arcTo", "arc", "quadraticCurveTo", "bezierCurveTo",
            "rect", "closePath"}

\* what a caller passes as a color: a CSS color or null
Colors == {"null", "c1", "c2"}

\* what a caller passes as thickness
Thicknesses == {"null", "8"}

\* the fields before a call, kept as history
PreState ==
  [old |-> g_oldInstructions, active |-> g_activeInstructions, isActive |-> g_active,
   dirty |-> g_dirty, instructions |-> g_instructions,
   fill |-> CurFill, stroke |-> CurStroke]

\* history kept by every call m
GNote(m) ==
  /\ g_last' = m
  /\ g_prev' = g_last
  /\ g_pre' = PreState
  /\ g_ctxPrev' = g_ctx

\* a merged list that puts the stroke before the fill
MergedStrokeFirst ==
  g_oldInstructions \o <<beginCmd>>
    \o g_fillInstructions
    \o (IF g_strokeInstructions # <<>>
        THEN g_strokeInstructions \o g_strokeStyleInstructions ELSE <<>>)
    \o g_activeInstructions
    \o (IF g_strokeInstructions # <<>> THEN <<strokeCmd>> ELSE <<>>)
    \o (IF g_fillInstructions # <<>> THEN <<fillCmd>> ELSE <<>>)

\* a merged list built on the last merged list instead of the committed one
MergedOntoCurrent ==
  g_instructions \o <<beginCmd>>
    \o g_fillInstructions
    \o (IF g_strokeInstructions # <<>>
        THEN g_strokeInstructions \o g_strokeStyleInstructions ELSE <<>>)
    \o g_activeInstructions
    \o (IF g_fillInstructions # <<>> THEN <<fillCmd>> ELSE <<>>)
    \o (IF g_strokeInstructions # <<>> THEN <<strokeCmd>> ELSE <<>>)

\* _updateInstructions: the value it gives _instructions
Merged ==
  g_oldInstructions \o <<beginCmd>>
    \o g_fillInstructions
    \o (IF g_strokeInstructions # <<>>
        THEN g_strokeInstructions \o g_strokeStyleInstructions ELSE <<>>)
    \o g_activeInstructions
    \o (IF g_fillInstructions # <<>> THEN <<fillCmd>> ELSE <<>>)
    \o (IF g_strokeInstructions # <<>> THEN <<strokeCmd>> ELSE <<>>)

\* a _newPath that commits nothing
CommittedKept == g_oldInstructions

\* _newPath: the value it gives _oldInstructions (and leaves in _instructions)
Committed == IF g_dirty THEN Merged ELSE g_instructions

graphicsStyles == <<g_fillInstructions, g_strokeInstructions, g_strokeStyleInstructions>>

\* a drawing method m: it pushes cmds on _activeInstructions, and when marks it
\* has first set this._dirty = this._active = true
Record(m, cmds, marks) ==
  /\ g_n < MaxGCalls
  /\ g_n' = g_n + 1
  /\ g_activeInstructions' = g_activeInstructions \o cmds
  /\ g_recorded' = g_recorded \o cmds
  /\ g_dirty' = (marks \/ g_dirty)
  /\ g_active' = (marks \/ g_active)
  /\ g_rebuilt' = FALSE
  /\ g_ctx' = <<>>
  /\ GNote(m)
  /\ UNCHANGED <<g_instructions, g_oldInstructions, graphicsStyles, tickerVars, stageVars, filterVars, treeVars>>

moveTo == Record("moveTo", <<PathCmd("moveTo", 1)>>, FALSE)

lineTo == Record("lineTo", <<PathCmd("lineTo", 1)>>, TRUE)

arcTo == Record("arcTo", <<PathCmd("arcTo", 1)>>, TRUE)

arc == Record("arc", <<PathCmd("arc", 1)>>, TRUE)

quadraticCurveTo == Record("quadraticCurveTo", <<PathCmd("quadraticCurveTo", 1)>>, TRUE)

bezierCurveTo == Record("bezierCurveTo", <<PathCmd("bezierCurveTo", 1)>>, TRUE)

rect == Record("rect", <<PathCmd("rect", 1)>>, TRUE)

drawRoundRectComplex ==
  Record("drawRoundRectComplex",
         <<PathCmd("moveTo", 1), PathCmd("lineTo", 2), PathCmd("arc", 3),
           PathCmd("lineTo", 4), PathCmd("arc", 5), PathCmd("lineTo", 6),
           PathCmd("arc", 7), PathCmd("lineTo", 8), PathCmd("arc", 9)>>, TRUE)

drawEllipse ==
  Record("drawEllipse",
         <<PathCmd("moveTo", 1), PathCmd("bezierCurveTo", 2), PathCmd("bezierCurveTo", 3),
           PathCmd("bezierCurveTo", 4), PathCmd("bezierCurveTo", 5)>>, TRUE)

\* what a caller passes as sides, and as pointSize ("0": null or 0, a polygon)
PolySides == {2}

PointSizes == {"0", "0.6"}

\* the lineTo commands of the sides from side i on; k is the place of the next
RECURSIVE StarSides(_, _, _, _)
StarSides(i, sides, pointSize, k) ==
  IF i >= sides THEN <<>>
  ELSE IF pointSize # "0"
       THEN <<PathCmd("lineTo", k), PathCmd("lineTo", k + 1)>>
              \o StarSides(i + 1, sides, pointSize, k + 2)
       ELSE <<PathCmd("lineTo", k)>> \o StarSides(i + 1, sides, pointSize, k + 1)

drawPolyStar(sides, pointSize) ==
  Record("drawPolyStar",
         <<PathCmd("moveTo", 1)>> \o StarSides(0, sides, pointSize, 2), TRUE)

\* closePath records only while a subpath is active
closePath ==
  /\ g_n < MaxGCalls
  /\ g_n' = g_n + 1
  /\ g_activeInstructions' =
       IF g_active THEN Append(g_activeInstructions, PathCmd("closePath", 1))
       ELSE g_activeInstructions
  /\ g_recorded' = Append(g_recorded, PathCmd("closePath", 1))
  /\ g_dirty' = (g_active \/ g_dirty)
  /\ g_rebuilt' = FALSE
  /\ g_ctx' = <<>>
  /\ GNote("closePath")
  /\ UNCHANGED <<g_instructions, g_oldInstructions, graphicsStyles, g_active, tickerVars,
                 stageVars, filterVars, treeVars>>

\* a clear that empties the active list and the styles only
clearCurrent ==
  /\ g_n < MaxGCalls
  /\ g_n' = g_n + 1
  /\ g_activeInstructions' = <<>>
  /\ g_strokeStyleInstructions' = <<>>
  /\ g_strokeInstructions' = <<>>
  /\ g_fillInstructions' = <<>>
  /\ g_active' = FALSE
  /\ g_dirty' = FALSE
  /\ g_rebuilt' = FALSE
  /\ g_recorded' = <<>>
  /\ g_ctx' = <<>>
  /\ GNote("clear")
  /\ UNCHANGED <<g_instructions, g_oldInstructions, tickerVars, stageVars, filterVars, treeVars>>

clear ==
  /\ g_n < MaxGCalls
  /\ g_n' = g_n + 1
  /\ g_instructions' = <<>>
  /\ g_oldInstructions' = <<>>
  /\ g_activeInstructions' = <<>>
  /\ g_strokeStyleInstructions' = <<>>
  /\ g_strokeInstructions' = <<>>
  /\ g_fillInstructions' = <<>>
  /\ g_active' = FALSE
  /\ g_dirty' = FALSE
  /\ g_rebuilt' = FALSE
  /\ g_recorded' = <<>>
  /\ g_ctx' = <<>>
  /\ GNote("clear")
  /\ UNCHANGED <<tickerVars, stageVars, filterVars, treeVars>>

\* a style method m: if (this._active) this._newPath(); then the three style
\* fields get the values given
Style(m, fill, stroke, strokeStyle) ==
  /\ g_n < MaxGCalls
  /\ g_n' = g_n + 1
  /\ IF g_active
     THEN /\ g_instructions' = Committed
          /\ g_oldInstructions' = Committed
          /\ g_activeInstructions' = <<>>
          /\ g_active' = FALSE
          /\ g_dirty' = FALSE
          /\ g_rebuilt' = g_dirty
     ELSE /\ g_rebuilt' = FALSE
          /\ UNCHANGED <<g_instructions, g_oldInstructions, g_activeInstructions,
                         g_active, g_dirty>>
  /\ g_fillInstructions' = fill
  /\ g_strokeInstructions' = stroke
  /\ g_strokeStyleInstructions' = strokeStyle
  /\ g_ctx' = <<>>
  /\ GNote(m)
  /\ UNCHANGED <<g_recorded, tickerVars, stageVars, filterVars, treeVars>>

\* color ? [new Graphics.Command(this._setProp, [name, color])] : null
ColorCmds(name, color) == IF color = "null" THEN <<>> ELSE <<SetProp(name, color)>>

\* a beginFill that also ends the stroke
beginFillOnly(color) ==
  Style("beginFill", ColorCmds("fillStyle", color), <<>>, g_strokeStyleInstructions)

beginFill(color) ==
  Style("beginFill", ColorCmds("fillStyle", color), g_strokeInstructions,
        g_strokeStyleInstructions)

beginLinearGradientFill ==
  Style("beginLinearGradientFill", <<SetProp("fillStyle", "linearGradient")>>,
        g_strokeInstructions, g_strokeStyleInstructions)

beginRadialGradientFill ==
  Style("beginRadialGradientFill", <<SetProp("fillStyle", "radialGradient")>>,
        g_strokeInstructions, g_strokeStyleInstructions)

beginBitmapFill ==
  Style("beginBitmapFill", <<SetProp("fillStyle", "pattern")>>, g_strokeInstructions,
        g_strokeStyleInstructions)

endFill ==
  Style("endFill", ColorCmds("fillStyle", "null"), g_strokeInstructions,
        g_strokeStyleInstructions)

\* caps, joints and miterLimit are left out by the caller
setStrokeStyle(thickness) ==
  Style("setStrokeStyle", g_fillInstructions, g_strokeInstructions,
        <<SetProp("lineWidth", IF thickness = "null" THEN "1" ELSE thickness),
          SetProp("lineCap", "butt"), SetProp("lineJoin", "miter"),
          SetProp("miterLimit", "10")>>)

beginStroke(color) ==
  Style("beginStroke", g_fillInstructions, ColorCmds("strokeStyle", color),
        g_strokeStyleInstructions)

beginLinearGradientStroke ==
  Style("beginLinearGradientStroke", g_fillInstructions,
        <<SetProp("strokeStyle", "linearGradient")>>, g_strokeStyleInstructions)

beginRadialGradientStroke ==
  Style("beginRadialGradientStroke", g_fillInstructions,
        <<SetProp("strokeStyle", "radialGradient")>>, g_strokeStyleInstructions)

beginBitmapStroke ==
  Style("beginBitmapStroke", g_fillInstructions, <<SetProp("strokeStyle", "pattern")>>,
        g_strokeStyleInstructions)

endStroke ==
  Style("endStroke", g_fillInstructions, ColorCmds("strokeStyle", "null"),
        g_strokeStyleInstructions)

\* draw(ctx): the merged list is rebuilt when dirty, and every command of it is
\* executed on ctx; _dirty is left as it is
draw ==
  /\ g_instructions' = IF g_dirty THEN Merged ELSE g_instructions
  /\ g_ctx' = IF g_dirty THEN Merged ELSE g_instructions
  /\ g_rebuilt' = g_dirty
  /\ GNote("draw")
  /\ UNCHANGED <<g_oldInstructions, g_activeInstructions, graphicsStyles, g_active,
                 g_dirty, g_n, g_recorded, tickerVars, stageVars, filterVars, treeVars>>

StyleMethods ==
  {"beginFill", "beginLinearGradientFill", "beginRadialGradientFill", "beginBitmapFill",
   "endFill", "setStrokeStyle", "beginStroke", "beginLinearGradientStroke",
   "beginRadialGradientStroke", "beginBitmapStroke", "endStroke"}

Primitives ==
  {"moveTo", "lineTo", "arcTo", "arc", "quadraticCurveTo", "bezierCurveTo", "rect",
   "drawRoundRectComplex", "drawEllipse", "drawPolyStar"}

\* new Graphics(): the constructor calls clear()
GraphicsInit ==
  /\ g_instructions = <<>>
  /\ g_oldInstructions = <<>>
  /\ g_activeInstructions = <<>>
  /\ g_fillInstructions = <<>>
  /\ g_strokeInstructions = <<>>
  /\ g_strokeStyleInstructions = <<>>
  /\ g_active = FALSE
  /\ g_dirty = FALSE
  /\ g_ctx = <<>>
  /\ g_n = 0
  /\ g_last = "none"
  /\ g_prev = "none"
  /\ g_pre = PreState
  /\ g_ctxPrev = <<>>
  /\ g_rebuilt = FALSE
  /\ g_recorded = <<>>

GraphicsNext ==
  \/ moveTo
  \/ lineTo
  \/ arcTo
  \/ arc
  \/ quadraticCurveTo
  \/ bezierCurveTo
  \/ rect
  \/ drawRoundRectComplex
  \/ drawEllipse
  \/ \E sides \in PolySides, pointSize \in PointSizes : drawPolyStar(sides, pointSize)
  \/ closePath
  \/ clear
  \/ \E color \in Colors : beginFill(color)
  \/ beginLinearGradientFill
  \/ beginRadialGradientFill
  \/ beginBitmapFill
  \/ endFill
  \/ \E thickness \in Thicknesses : setStrokeStyle(thickness)
  \/ \E color \in Colors : beginStroke(color)
  \/ beginLinearGradientStroke
  \/ beginRadialGradientStroke
  \/ beginBitmapStroke
  \/ endStroke
  \/ draw

(***************************************************************************)
(* ColorMatrixFilter.  A pixel is <<r, g, b, a>>; a matrix is its 20        *)
(* entries, row by row.  The source rectangle is one pixel.                *)
(***************************************************************************)
Contexts == {"A", "B"}

Positions == (0..(CanvasSide - 1)) \X (0..(CanvasSide - 1))

\* an argument that was not passed
Undefined == [k |-> "undefined", v |-> 0]

\* the values of an optional coordinate argument
OptCoords == {Undefined} \cup {Num(n) : n \in 0..(CanvasSide - 1)}

\* the values of the optional context argument
OptContexts == {"undefined"} \cup Contexts

\* red and blue exchanged, green inverted
SwapMatrix == <<0, 0, 1, 0, 0,   0, -1, 0, 0, 255,   1, 0, 0, 0, 0,   0, 0, 0, 1, 0>>

\* everything brighter by 100
BrightMatrix == <<1, 0, 0, 0, 100,   0, 1, 0, 0, 100,   0, 0, 1, 0, 100,   0, 0, 0, 1, 0>>

Matrices == {SwapMatrix, BrightMatrix}

\* what a store into the Uint8ClampedArray of an ImageData keeps
Clamp(v) == IF v < 0 THEN 0 ELSE IF v > 255 THEN 255 ELSE v

\* one row of the matrix applied to a pixel
Row(mtx, k, px) ==
  Clamp(px[1] * mtx[5 * k + 1] + px[2] * mtx[5 * k + 2] + px[3] * mtx[5 * k + 3]
        + px[4] * mtx[5 * k + 4] + mtx[5 * k + 5])

\* the loop over the pixels, for one pixel
Transform(mtx, px) == <<Row(mtx, 0, px), Row(mtx, 1, px), Row(mtx, 2, px), Row(mtx, 3, px)>>

\* targetCtx = targetCtx || ctx
TargetCtx(ctx, targetCtx) == IF targetCtx = "undefined" THEN ctx ELSE targetCtx

\* if (targetX = null) { targetX = x; }: the condition is an assignment, its
\* value is null, the branch is not taken and targetX is null
TargetCoord(target, source) ==
  LET assigned == Null
  IN IF assigned.k \in {"num", "true"} /\ assigned # Num(0) THEN source ELSE assigned

\* a coordinate passed to putImageData, converted to a long: null is 0
ToLong(c) == IF c.k = "num" THEN c.v ELSE 0

\* a call that writes the pixels it could not read
WritesAlways(ctx, x, y, mtx, targetCtx, targetX, targetY) ==
  <<[ctx |-> TargetCtx(ctx, targetCtx),
     x |-> ToLong(TargetCoord(targetX, Num(x))),
     y |-> ToLong(TargetCoord(targetY, Num(y))),
     data |-> Transform(mtx, f_pixels[ctx][<<x, y>>])]>>

\* the putImageData calls of applyFilter: none when getImageData throws
Writes(ctx, x, y, mtx, targetCtx, targetX, targetY) ==
  IF ctx \in f_tainted
  THEN <<>>
  ELSE <<[ctx |-> TargetCtx(ctx, targetCtx),
          x |-> ToLong(TargetCoord(targetX, Num(x))),
          y |-> ToLong(TargetCoord(targetY, Num(y))),
          data |-> Transform(mtx, f_pixels[ctx][<<x, y>>])]>>

\* the pixels after the putImageData calls w
RECURSIVE Put(_, _)
Put(pixels, w) ==
  IF w = <<>> THEN pixels
  ELSE Put([pixels EXCEPT ![Head(w).ctx][<<Head(w).x, Head(w).y>>] = Head(w).data], Tail(w))

\* ColorMatrixFilter.applyFilter(ctx, x, y, 1, 1, targetCtx, targetX, targetY)
\* of a filter whose matrix is mtx
applyFilter(ctx, x, y, mtx, targetCtx, targetX, targetY) ==
  /\ f_n < MaxFilterCalls
  /\ f_n' = f_n + 1
  /\ f_args' = <<[ctx |-> ctx, x |-> x, y |-> y, mtx |-> mtx, targetCtx |-> targetCtx,
                  targetX |-> targetX, targetY |-> targetY, pixels |-> f_pixels,
                  rejected |-> ctx \in f_tainted]>>
  /\ f_writes' = Writes(ctx, x, y, mtx, targetCtx, targetX, targetY)
  /\ f_pixels' = Put(f_pixels, Writes(ctx, x, y, mtx, targetCtx, targetX, targetY))
  /\ f_ret' = IF ctx \in f_tainted THEN "false" ELSE "true"
  /\ f_threw' = FALSE
  /\ UNCHANGED <<f_tainted, tickerVars, stageVars, graphicsVars, treeVars>>

\* the application draws an image of another origin on a context: from then
\* on the platform rejects getImageData on it
Taint(ctx) ==
  /\ ctx \notin f_tainted
  /\ f_tainted' = f_tainted \cup {ctx}
  /\ UNCHANGED <<f_pixels, f_n, f_args, f_ret, f_threw, f_writes, tickerVars, stageVars,
                 graphicsVars, treeVars>>

\* first the canvas of A shows a picture and the canvas of B is empty
FilterInit ==
  /\ f_pixels = [c \in Contexts |->
                   [p \in Positions |->
                      IF c = "B" THEN <<0, 0, 0, 0>>
                      ELSE IF p = <<0, 0>> THEN <<200, 100, 0, 255>>
                      ELSE <<10, 20, 30, 255>>]]
  /\ f_tainted = {}
  /\ f_n = 0
  /\ f_args = <<>>
  /\ f_ret = "none"
  /\ f_threw = FALSE
  /\ f_writes = <<>>

FilterNext ==
  \/ \E ctx \in Contexts, x \in 0..(CanvasSide - 1), y \in 0..(CanvasSide - 1),
        mtx \in Matrices, targetCtx \in OptContexts, targetX \in OptCoords,
        targetY \in OptCoords :
        applyFilter(ctx, x, y, mtx, targetCtx, targetX, targetY)
  \/ \E ctx \in Contexts : Taint(ctx)

(***************************************************************************)
(* Container: the child list.  The game calls it on its stage.             *)
(***************************************************************************)
Containers == {"stage", "layer"}

\* the message field, the score field, the ship, and a rock from the pool
Children == {"messageField", "scoreField", "ship", "rock"}

Range(seq) == {seq[k] : k \in 1..Len(seq)}

\* the sequence without the node
Without(seq, n) == SelectSeq(seq, LAMBDA e : e # n)

\* a display list: the child lists and the back-references
Tree(ch, pa) == [children |-> ch, parent |-> pa]

\* an addChild that leaves the node in the list that held it
AppendChild(t, c, n) ==
  Tree([t.children EXCEPT ![c] = Append(@, n)], [t.parent EXCEPT ![n] = c])

\* Container.addChild(n) on c: detach n from its parent, append it, set its parent
AddChild(t, c, n) ==
  Tree([d \in Containers |-> IF d = c THEN Append(Without(t.children[d], n), n)
                             ELSE IF d = t.parent[n] THEN Without(t.children[d], n)
                             ELSE t.children[d]],
       [t.parent EXCEPT ![n] = c])

\* Container.removeChild(n) on c: nothing happens when c does not hold n
RemoveChild(t, c, n) ==
  IF n \in Range(t.children[c])
  THEN Tree([t.children EXCEPT ![c] = Without(@, n)], [t.parent EXCEPT ![n] = "null"])
  ELSE t

\* Container.removeAllChildren() on c
RemoveAllChildren(t, c) ==
  Tree([t.children EXCEPT ![c] = <<>>],
       [n \in Children |-> IF n \in Range(t.children[c]) THEN "null" ELSE t.parent[n]])

Now == Tree(children, parent)

TreeStep(t, op, c, n) ==
  /\ children' = t.children
  /\ parent' = t.parent
  /\ c_last' = [op |-> op, c |-> c, n |-> n,
                 was |-> IF n \in Children THEN parent[n] ELSE "null"]
  /\ c_seen' = IF op = "addChild" /\ parent[n] # "null"
               THEN c_seen \cup {IF parent[n] = c THEN "again" ELSE "moved"}
               ELSE c_seen
  /\ UNCHANGED <<tickerVars, stageVars, graphicsVars, filterVars>>

addChild(c, n) == TreeStep(AddChild(Now, c, n), "addChild", c, n)

removeChild(c, n) == TreeStep(RemoveChild(Now, c, n), "removeChild", c, n)

removeAllChildren(c) == TreeStep(RemoveAllChildren(Now, c), "removeAllChildren", c, "null")

\* Game.prototype.watchRestart
watchRestart == TreeStep(AddChild(Now, "stage", "messageField"), "watchRestart", "stage",
                         "messageField")

\* Game.prototype.handleClick and restart: the message field goes, the stage is
\* emptied, the score field and the new ship are added
handleClick ==
  TreeStep(AddChild(AddChild(RemoveAllChildren(RemoveChild(Now, "stage", "messageField"),
                                               "stage"),
                             "stage", "scoreField"),
                    "stage", "ship"),
           "handleClick", "stage", "ship")

\* Game.prototype.getSpaceRock: a rock of the pool is put on the stage
getSpaceRock == TreeStep(AddChild(Now, "stage", "rock"), "getSpaceRock", "stage", "rock")

\* Game.prototype.tick, a rock hits the ship: the ship goes, the message field is
\* added, and watchRestart adds it again
ShipHit ==
  /\ "ship" \in Range(children["stage"])
  /\ "rock" \in Range(children["stage"])
  /\ TreeStep(AddChild(AddChild(RemoveChild(Now, "stage", "ship"), "stage", "messageField"),
                       "stage", "messageField"),
              "ShipHit", "stage", "messageField")

TreeInit ==
  /\ children = [c \in Containers |-> <<>>]
  /\ parent = [n \in Children |-> "null"]
  /\ c_last = [op |-> "none", c |-> "null", n |-> "null", was |-> "null"]
  /\ c_seen = {}

TreeNext ==
  \/ \E c \in Containers, n \in Children : addChild(c, n)
  \/ \E c \in Containers, n \in Children : removeChild(c, n)
  \/ \E c \in Containers : removeAllChildren(c)
  \/ watchRestart
  \/ handleClick
  \/ getSpaceRock
  \/ ShipHit

Init == TickerInit /\ StageInit /\ GraphicsInit /\ FilterInit /\ TreeInit

SpecTree == Init /\ [][TreeNext]_vars

SpecTicker == Init /\ [][TickerNext]_vars

SpecClock == Init /\ [][ClockNext]_vars

SpecLongRun == Init /\ [][LongRunNext]_vars

SpecStage == Init /\ [][StageNext]_vars

SpecOver == Init /\ [][OverNext]_vars

SpecRender == Init /\ [][RenderNext]_vars

SpecPress == Init /\ [][PressNext]_vars

SpecFilter == Init /\ [][FilterNext]_vars

SpecGraphics == Init /\ [][GraphicsNext]_vars

(***************************************************************************)
(* Pointer interaction: the claims.                                        *)
(***************************************************************************)
\* the calls of the last native event to the handler fn of the press event
EventCalls(fn) == SelectSeq(s_calls, LAMBDA c : c.on = "event" /\ c.fn = fn)

\* the onClick calls of the last native event
Clicks == SelectSeq(s_calls, LAMBDA c : c.fn = "onClick")

C2_NoLeak ==
  /\ (s_last = "move" /\ s_presses = 0) => EventCalls("onMouseMove") = <<>>
  /\ (s_last = "up" /\ s_relPresses = 0) => EventCalls("onMouseUp") = <<>>

C4_MoveAlways ==
  (s_last = "move" /\ s_presses = 1 /\ "onMouseMove" \in s_attached /\ s_move # "nocanvas")
    => Len(EventCalls("onMouseMove")) = 1

(***************************************************************************)
(* Ticker: the claims.  A fire is judged when its loop has run (FireDone). *)
(***************************************************************************)
\* the tick calls the running fire has made to o
CallsTo(o) == SelectSeq(h_called, LAMBDA c : c.l = o)

\* a tick of the running fire has changed the registration of o
Touched(o) ==
  \E op \in h_ops :
    \/ op[1] = "removeAllListeners"
    \/ op[1] \in {"addListener", "removeListener"} /\ op[2] = o

\* the k-th listener of the snapshot was registered with an explicit flag
Explicit(k) == h_snapArgs[k] \in {"true", "false"}

\* the tick calls the k-th listener of the snapshot is due in the running fire
Due(k) ==
  IF HasTick(t_listeners[k]) /\ ~(t_paused /\ h_snapArgs[k] = "true") THEN 1 ELSE 0

\* C5: in a fire that began paused a listener registered with pauseable=true
\* gets no tick and one registered with pauseable=false gets exactly one, whose
\* argument is the clock difference to the previous fire; in a fire that began
\* not paused every registered listener with a tick method gets exactly one.
\* (Stated for the listeners whose registration no tick of the fire changes.)
C5_PauseSemantics ==
  FireDone =>
    \A k \in 1..Len(t_listeners) :
      ~Touched(t_listeners[k]) =>
        /\ (t_paused /\ h_snapArgs[k] = "true") => CallsTo(t_listeners[k]) = <<>>
        /\ (t_paused /\ h_snapArgs[k] = "false" /\ HasTick(t_listeners[k])) =>
             /\ Len(CallsTo(t_listeners[k])) = 1
             /\ h_prevClock # -1 => CallsTo(t_listeners[k])[1].arg = clock - h_prevClock
        /\ (~t_paused /\ HasTick(t_listeners[k])) => Len(CallsTo(t_listeners[k])) = 1

\* C6: in a fire whose ticks call removeListener on listeners of the snapshot
\* (and make no other call), every listener of the snapshot is still considered
\* exactly once, with the flag it was registered with.
C6_RemovalSafe ==
  (/\ FireDone
   /\ h_ops # {}
   /\ \A op \in h_ops : op[1] = "removeListener" /\ IndexOf(t_listeners, op[2]) # -1)
  => \A k \in 1..Len(t_listeners) :
       (Explicit(k) \/ ~t_paused) => Len(CallsTo(t_listeners[k])) = Due(k)

\* C7: a listener that is due a tick in the fire, and that a tick of the fire
\* removes (removeListener, removeAllListeners) and does not add again, still
\* gets its tick in this fire; an object that was not registered when the fire
\* began (one that is added during it) gets none in it.
C7_MutationsNextFire ==
  FireDone =>
    /\ \A k \in 1..Len(t_listeners) :
         (/\ Explicit(k) \/ ~t_paused
          /\ Due(k) = 1
          /\ \/ <<"removeListener", t_listeners[k]>> \in h_ops
             \/ <<"removeAllListeners", 0>> \in h_ops
          /\ <<"addListener", t_listeners[k]>> \notin h_ops)
         => Len(CallsTo(t_listeners[k])) = 1
    /\ \A o \in Objs : IndexOf(t_listeners, o) = -1 => CallsTo(o) = <<>>

\* C8: getTicks(true) is the number of fires, those that began paused
\* included, and getTicks(false) the number of fires that began not paused.
C8_GetTicks ==
  /\ getTicks(TRUE) = h_fires
  /\ getTicks(FALSE) = h_fires - h_firesPaused

\* C9: a listener added without the pauseable argument gets no tick in a fire
\* that began paused.
C9_DefaultPauseable ==
  (FireDone /\ t_paused) =>
    \A k \in 1..Len(t_listeners) :
      (h_snapArgs[k] = "undefined" /\ ~Touched(t_listeners[k]))
        => CallsTo(t_listeners[k]) = <<>>

\* C10: the listener list holds no object twice, the flag list is as long and
\* holds at index i the flag given when the listener at i was last added;
\* adding a registered object again leaves the number of listeners as it was
\* and makes its flag the one just given.
C10_ParallelLists ==
  /\ \A i, j \in 1..Len(listeners) : listeners[i] = listeners[j] => i = j
  /\ Len(pauseable) = Len(listeners)
  /\ \A k \in 1..Len(listeners) :
       /\ regArg[listeners[k]] # "none"
       /\ regArg[listeners[k]] \in {"true", "false"}
            => pauseable[k] = (regArg[listeners[k]] = "true")
  /\ h_readd # <<>> =>
       /\ Len(listeners) = h_readd[1].len
       /\ IndexOf(listeners, h_readd[1].o) # -1
       /\ h_readd[1].arg \in {"true", "false"}
            => FlagAt(pauseable, IndexOf(listeners, h_readd[1].o)) = (h_readd[1].arg = "true")

\* a registered object, not the last one added, has been added again with a flag
C10_Witness ==
  /\ h_readd # <<>>
  /\ Len(listeners) >= 2
  /\ h_readd[1].arg = "true"
  /\ tpc = "callback"

(***************************************************************************)
(* Ticker: arming, the clock and the measured frame rate.                  *)
(***************************************************************************)
\* C11: before the first addListener no frame callback is pending and none has
\* run; from the first addListener on exactly one is pending, between callbacks
\* and (the callback requests the next one first) while one runs, whatever
\* addListener, removeListener and removeAllListeners calls have been made.
C11_ArmedOnce ==
  /\ ~inited => (pendingFrames = 0 /\ h_fires = 0)
  /\ inited => pendingFrames = 1

\* callbacks have run and no listener is left: one frame callback is pending
C11_Witness ==
  /\ inited
  /\ tpc = "idle"
  /\ h_fires >= 1
  /\ listeners = <<>>
  /\ pendingFrames = 1

\* the sample sizes a caller passes to getMeasuredFPS
MaxSample == 6

\* the recorded timestamps are d apart
FixedSpacing(d) == \A k \in 1..(Len(times) - 1) : times[k] - times[k + 1] = d

\* C12: getMeasuredFPS(n) is -1 while fewer than 2 timestamps are recorded;
\* with at least 2 recorded, d > 0 apart, it is 1000/d for every n >= 1.
C12_MeasuredFPS ==
  /\ Len(times) < 2 => \A n \in 0..MaxSample : getMeasuredFPS(n) = MinusOne
  /\ \A d \in 1..MaxDelta :
       (Len(times) >= 2 /\ FixedSpacing(d)) =>
         \A n \in 1..MaxSample : getMeasuredFPS(n) = Ratio(1000, d)

\* four timestamps 2 apart: sample sizes below, at and above the three intervals
C12_Witness ==
  /\ Len(times) = 4
  /\ FixedSpacing(2)
  /\ getMeasuredFPS(2) = Ratio(1000, 2)
  /\ getMeasuredFPS(3) = Ratio(1000, 2)
  /\ getMeasuredFPS(MaxSample) = Ratio(1000, 2)

\* C13: getTime(true) counts the time spent paused and getTime(false) does not:
\* getTime(true) exceeds getTime(false) by the paused time accumulated, so it is
\* never less, and equal exactly when no paused time was accumulated.
C13_GetTime ==
  /\ getTime(TRUE) - getTime(FALSE) = pausedTime
  /\ getTime(TRUE) >= getTime(FALSE)
  /\ (getTime(TRUE) = getTime(FALSE)) <=> (pausedTime = 0)

\* C14: time is measured from the first addListener: with no paused time
\* accumulated, getTime(true) at clock t is t minus the clock at the first
\* addListener, and the ticks of the first callback get the time since it.
C14_SinceFirstAdd ==
  /\ (inited /\ pausedTime = 0) => getTime(TRUE) = clock - h_startClock
  /\ (h_fires = 1 /\ tpc # "idle") =>
       \A k \in 1..Len(h_called) : h_called[k].arg = clock - h_startClock

(***************************************************************************)
(* Graphics: the claims.  The last call is g_last; g_pre holds the fields  *)
(* as they were before it.                                                 *)
(***************************************************************************)
\* the path-building commands of a list, in order
PathPart(list) == SelectSeq(list, LAMBDA c : c.f \in PathFns)

\* list begins with prefix
IsPrefix(prefix, list) ==
  /\ Len(prefix) <= Len(list)
  /\ SubSeq(list, 1, Len(prefix)) = prefix

\* what follows the first n commands of list
After(list, n) == SubSeq(list, n + 1, Len(list))

\* C15: a drawing primitive executes nothing on a context; it appends its
\* commands to the active list, leaves the other lists alone, and leaves the
\* buffer with dirty = true and active = true.
C15_PrimitivesRecord ==
  g_last \in Primitives =>
    /\ g_ctx = <<>>
    /\ IsPrefix(g_pre.active, g_activeInstructions)
    /\ Len(g_activeInstructions) > Len(g_pre.active)
    /\ g_oldInstructions = g_pre.old
    /\ g_instructions = g_pre.instructions
    /\ g_dirty
    /\ g_active

\* C16: a style method called while a subpath is active leaves the active list
\* empty and the active flag false, and the committed list is what it was
\* followed by (among the style and execution commands of the subpath) the
\* commands of the subpath, in order; called while none is active it leaves the
\* committed and the active list as they were.
C16_StyleClosesSubpath ==
  g_last \in StyleMethods =>
    IF g_pre.isActive
    THEN /\ g_activeInstructions = <<>>
         /\ ~g_active
         /\ IsPrefix(g_pre.old, g_oldInstructions)
         /\ PathPart(After(g_oldInstructions, Len(g_pre.old))) = g_pre.active
    ELSE /\ g_oldInstructions = g_pre.old
         /\ g_activeInstructions = g_pre.active

\* a style method has closed a subpath when another had been committed before
C16_Witness ==
  /\ g_last \in StyleMethods
  /\ g_pre.isActive
  /\ g_pre.old # <<>>
  /\ Len(g_pre.active) >= 2
  /\ Len(g_oldInstructions) > Len(g_pre.old) + Len(g_pre.active)

\* the paint events of replaying log from its i-th command on, on a context
\* whose fillStyle is fs and strokeStyle is ss and whose current path holds path
RECURSIVE Paints(_, _, _, _, _)
Paints(log, i, fs, ss, path) ==
  IF i > Len(log) THEN {}
  ELSE LET c == log[i] IN
    CASE c.f = "beginPath" -> Paints(log, i + 1, fs, ss, <<>>)
      [] c.f = "_setProp" ->
           Paints(log, i + 1, IF c.name = "fillStyle" THEN c.val ELSE fs,
                  IF c.name = "strokeStyle" THEN c.val ELSE ss, path)
      [] c.f = "fill" ->
           {[cmd |-> path[j], how |-> "fill", with |-> fs] : j \in 1..Len(path)}
             \cup Paints(log, i + 1, fs, ss, path)
      [] c.f = "stroke" ->
           {[cmd |-> path[j], how |-> "stroke", with |-> ss] : j \in 1..Len(path)}
             \cup Paints(log, i + 1, fs, ss, path)
      [] OTHER -> Paints(log, i + 1, fs, ss, Append(path, c))

\* the styles with which replaying log paints the command c in the way how
PaintedWith(log, c, how) ==
  {e.with : e \in {x \in Paints(log, 1, "default", "default", <<>>) :
                     x.cmd = c /\ x.how = how}}

\* C17: at replay every path command is filled with the fill, and stroked with
\* the stroke, that was set when it was recorded, and with no other.
C17_StyleCut ==
  g_last = "draw" =>
    \A i \in 1..Len(g_ctx) :
      g_ctx[i].f \in PathFns =>
        /\ PaintedWith(g_ctx, g_ctx[i], "fill")
             = (IF g_ctx[i].hf = "none" THEN {} ELSE {g_ctx[i].hf})
        /\ PaintedWith(g_ctx, g_ctx[i], "stroke")
             = (IF g_ctx[i].hs = "none" THEN {} ELSE {g_ctx[i].hs})

\* C18: of two draw calls with no other call between them, the second executes
\* the same commands, in the same order, as the first.
C18_ReplayPure == (g_last = "draw" /\ g_prev = "draw") => g_ctx = g_ctxPrev

\* two draws in a row of a buffer with a committed and an active subpath
C18_Witness ==
  /\ g_last = "draw"
  /\ g_prev = "draw"
  /\ g_oldInstructions # <<>>
  /\ g_activeInstructions # <<>>
  /\ g_dirty
  /\ Len(g_ctx) > Len(g_oldInstructions) + Len(g_activeInstructions)

\* C19: after a draw the buffer is not dirty, and of two draw calls with no
\* other call between them the second does not rebuild the merged list.
C19_RebuildOnce ==
  /\ g_last = "draw" => ~g_dirty
  /\ (g_last = "draw" /\ g_prev = "draw") => ~g_rebuilt

\* the commands that execute the fill and the stroke, when they are set
ExecPart ==
  (IF g_fillInstructions # <<>> THEN <<fillCmd>> ELSE <<>>)
    \o (IF g_strokeInstructions # <<>> THEN <<strokeCmd>> ELSE <<>>)

\* the stroke settings in the orders the statement allows
StrokeBlocks ==
  IF g_strokeInstructions # <<>>
  THEN {g_strokeInstructions \o g_strokeStyleInstructions,
        g_strokeStyleInstructions \o g_strokeInstructions}
  ELSE {<<>>, g_strokeStyleInstructions}

\* C20 as stated: the list a draw has rebuilt is begin-path, the fill setting,
\* the stroke settings, the path commands of the committed list followed by
\* the active list, then the fill and the stroke execution, when set.
C20_MergedOrder ==
  (g_last = "draw" /\ g_rebuilt) =>
    \E sb \in StrokeBlocks :
      g_instructions = <<beginCmd>> \o g_fillInstructions \o sb
                         \o PathPart(g_oldInstructions) \o g_activeInstructions
                         \o ExecPart

\* C20, amended: the list a draw has rebuilt is the committed list as it is,
\* followed by begin-path, the fill setting, the stroke color and then the
\* stroke style (both only when a stroke color is set), the active list, and
\* the fill and then the stroke execution, each when its style is set.
C20_MergedOrderAmended ==
  (g_last = "draw" /\ g_rebuilt) =>
    /\ IsPrefix(g_oldInstructions, g_instructions)
    /\ After(g_instructions, Len(g_oldInstructions))
         = <<beginCmd>> \o g_fillInstructions
             \o (IF g_strokeInstructions # <<>>
                 THEN g_strokeInstructions \o g_strokeStyleInstructions ELSE <<>>)
             \o g_activeInstructions \o ExecPart

\* a rebuild with a committed subpath, a fill, a stroke and an active subpath
C20_Witness ==
  /\ g_last = "draw"
  /\ g_rebuilt
  /\ g_oldInstructions # <<>>
  /\ g_fillInstructions # <<>>
  /\ g_strokeInstructions # <<>>
  /\ g_activeInstructions # <<>>

\* the fields of a Graphics as its constructor leaves them
FreshGraphics ==
  /\ g_instructions = <<>>
  /\ g_oldInstructions = <<>>
  /\ g_activeInstructions = <<>>
  /\ g_fillInstructions = <<>>
  /\ g_strokeInstructions = <<>>
  /\ g_strokeStyleInstructions = <<>>
  /\ ~g_dirty
  /\ ~g_active

\* C21: clear() leaves the fields as the constructor does (the three lists
\* empty, the three styles null, dirty and active false); a draw directly after
\* it executes nothing; a recording call directly after it leaves what it leaves
\* on a new buffer: nothing committed, and in the active list its own commands
\* only.
C21_ClearResets ==
  /\ g_last = "clear" => FreshGraphics
  /\ (g_last = "draw" /\ g_prev = "clear") => (g_ctx = <<>> /\ FreshGraphics)
  /\ (g_prev = "clear" /\ g_last \in Primitives \cup StyleMethods \cup {"closePath"}) =>
       /\ g_oldInstructions = <<>>
       /\ g_instructions = <<>>
       /\ \A i \in 1..Len(g_activeInstructions) :
            /\ g_activeInstructions[i].pt = g_n
            /\ g_activeInstructions[i].hf = "none"
            /\ g_activeInstructions[i].hs = "none"
       /\ g_last \in StyleMethods \cup {"closePath"} => g_activeInstructions = <<>>
       /\ g_last \in Primitives => g_activeInstructions # <<>>

\* clear() on a buffer with a drawn list, an open subpath and a fill
C21_Witness ==
  /\ g_last = "clear"
  /\ g_pre.instructions # <<>>
  /\ g_pre.old # <<>>
  /\ g_pre.active # <<>>
  /\ g_pre.fill # "none"
  /\ g_pre.dirty
  /\ g_pre.isActive

(***************************************************************************)
(* Stage: mouse-over polling, bounds, and presses that hit nothing.        *)
(***************************************************************************)
\* the front-most node under the pointer, null when it is out of bounds
UnderPointer == IF mouseInBounds THEN _getObjectsUnderPoint(mouseX, mouseY, Num(3)) ELSE "null"

\* C22: a poll that makes its hit-test (null when the pointer is out of bounds)
\* and finds a target other than the recorded one calls onMouseOut of the old
\* target, if there is one and it has the handler, then onMouseOver of the new
\* one likewise, and records the new target; a poll that finds the recorded
\* target calls nothing.
C22_OverOut ==
  (a_last = "poll" /\ a_hit # "skipped") =>
    /\ ~mouseInBounds => a_hit = "null"
    /\ mouseOverTarget = a_hit
    /\ a_hit = a_pre => a_calls = <<>>
    /\ a_hit # a_pre =>
         a_calls =
           (IF a_pre # "null" /\ "onMouseOut" \in NodeHandlers(a_pre)
            THEN <<Call("onMouseOut", a_pre)>> ELSE <<>>)
           \o (IF a_hit # "null" /\ "onMouseOver" \in NodeHandlers(a_hit)
               THEN <<Call("onMouseOver", a_hit)>> ELSE <<>>)

\* a poll that found the pointer gone from a node with onMouseOut to one with onMouseOver
C22_Witness ==
  /\ a_last = "poll"
  /\ a_pre # "null"
  /\ a_hit \notin {"null", "skipped", a_pre}
  /\ Len(a_calls) = 2

\* C23: after every poll the recorded over-target is the front-most node under
\* the pointer, and a change since the last poll has been reported.
C23_PollRetests ==
  a_last = "poll" =>
    /\ mouseOverTarget = UnderPointer
    /\ a_pre # UnderPointer => a_hit = UnderPointer

\* the last native move, relative to the canvas: the page coordinates less the
\* offsets of the canvas and of every offsetParent above it
MoveX == s_page[1] - (OffsetChain[1].offsetLeft + OffsetChain[2].offsetLeft)

MoveY == s_page[2] - (OffsetChain[1].offsetTop + OffsetChain[2].offsetTop)

NodeCalls(calls) == SelectSeq(calls, LAMBDA c : c.on \in Nodes)

\* C30: a press or double-click whose hit-test finds no node invokes no
\* handler of any node; after such a press no pressed target and no transient
\* handlers are recorded, and the release that follows dispatches no onClick.
C30_NullTarget ==
  /\ (s_last = "down" /\ s_pressHit = "null") =>
       /\ NodeCalls(s_calls) = <<>>
       /\ activeMouseTarget = "null"
       /\ activeEaselMouseEvent = <<>>
  /\ (a_last = "dblclick" /\ a_hit = "null") => NodeCalls(a_calls) = <<>>
  /\ (s_last = "up" /\ s_relPresses >= 1 /\ s_pressHit = "null") => Clicks = <<>>

(***************************************************************************)
(* Stage: rendering, the claims.                                           *)
(***************************************************************************)
\* C25: on a stage without a canvas, update, clear, toDataURL and the native
\* pointer handlers raise no error and neither draw nor tick anything.
C25_UnboundNoOp == (canvas = "null" /\ r_last # "clone") => (r_error = "none" /\ r_log = <<>>)

\* the places of an entry in the record of the last call
Places(entry) == {i \in 1..Len(r_log) : r_log[i] = entry}

C27_CloneCompletes ==
  r_last = "clone" =>
    /\ r_error = "none"
    /\ Places("cloneProps") # {}
    /\ Places("return o") # {}

(***************************************************************************)
(* ColorMatrixFilter: the claims.                                          *)
(***************************************************************************)
\* the pixel the last call had to read
SourcePixel == f_args[1].pixels[f_args[1].ctx][<<f_args[1].x, f_args[1].y>>]

\* a pixel made brighter by 100, the channels capped at 255
Brighter(px) ==
  <<IF px[1] > 155 THEN 255 ELSE px[1] + 100, IF px[2] > 155 THEN 255 ELSE px[2] + 100,
    IF px[3] > 155 THEN 255 ELSE px[3] + 100, px[4]>>

\* C28: a call of applyFilter whose getImageData is rejected returns false,
\* propagates no exception and writes nothing; any other call writes the
\* transformed pixels once and returns true.
C28_RejectedRead ==
  f_args # <<>> =>
    /\ ~f_threw
    /\ IF f_args[1].rejected
       THEN /\ f_ret = "false"
            /\ f_writes = <<>>
            /\ f_pixels = f_args[1].pixels
       ELSE /\ f_ret = "true"
            /\ Len(f_writes) = 1
            /\ f_args[1].mtx = BrightMatrix => f_writes[1].data = Brighter(SourcePixel)
            /\ f_args[1].mtx = SwapMatrix =>
                 f_writes[1].data = <<SourcePixel[3], 255 - SourcePixel[2], SourcePixel[1],
                                      SourcePixel[4]>>

\* a rejected call on a context that an earlier call has written
C28_Witness ==
  /\ f_args # <<>>
  /\ f_args[1].rejected
  /\ f_ret = "false"
  /\ f_n = 2
  /\ f_pixels[f_args[1].ctx] # [p \in Positions |-> <<0, 0, 0, 0>>]
  /\ \E p \in Positions : f_pixels["B"][p] = <<255, 200, 100, 255>>

\* C29: a call of applyFilter that writes, writes to targetCtx, or to ctx when
\* targetCtx is omitted, at (targetX, targetY), where an omitted targetX is x
\* and an omitted targetY is y.
C29_TargetDefaults ==
  (f_args # <<>> /\ f_writes # <<>>) =>
    /\ f_writes[1].ctx =
         IF f_args[1].targetCtx = "undefined" THEN f_args[1].ctx ELSE f_args[1].targetCtx
    /\ f_writes[1].x =
         IF f_args[1].targetX = Undefined THEN f_args[1].x ELSE f_args[1].targetX.v
    /\ f_writes[1].y =
         IF f_args[1].targetY = Undefined THEN f_args[1].y ELSE f_args[1].targetY.v

\* C31: after any sequence of enableMouseOver(f) calls the stage has at most one
\* poll timer: none when the latest f <= 0 (or there was no call), otherwise exactly
\* the one the latest call created, whose period is 1000 / min(50, f) ms, at least
\* 20 ms; every timer an earlier call created is cancelled.
C31_OneTimer ==
  /\ Cardinality(timers) <= 1
  /\ e_freq <= 0 => timers = {} /\ mouseOverIntervalID = Null
  /\ e_freq > 0 => /\ timers = {[id |-> nextTimerId - 1,
                                 period |-> 1000 \div Min(50, e_freq)]}
                   /\ mouseOverIntervalID = Num(nextTimerId - 1)
                   /\ \A t \in timers : t.period >= 20

\* a second polling call replaced the timer of the first
C31_Witness ==
  /\ e_freq = 100
  /\ nextTimerId = 3
  /\ timers = {[id |-> 2, period |-> 20]}

\* C32: Ticker._times never holds more than 100 timestamps; the end of each fire
\* puts the fire's timestamp first, keeps the earlier ones behind it in their
\* order, and drops the last (oldest) one when that makes more than 100.
C32_TimesBounded ==
  /\ [](Len(times) <= MaxTimes)
  /\ [][FireDone /\ tpc' = "idle" =>
          /\ Len(times') = Min(Len(times) + 1, MaxTimes)
          /\ times'[1] = t_time
          /\ \A k \in 2..Len(times') : times'[k] = times[k - 1]]_vars

\* the buffer is full and two more fires have gone through it
C32_Witness ==
  /\ tpc = "idle"
  /\ h_fires = MaxTimes + 2
  /\ Len(times) = MaxTimes
  /\ times[1] = lastTime
  /\ times[MaxTimes] = lastTime - (MaxTimes - 1)

\* the operations that end with an addChild of c_last.n to c_last.c
Adding == {"addChild", "watchRestart", "handleClick", "getSpaceRock", "ShipHit"}

\* C33: after any sequence of addChild, removeChild and removeAllChildren no node
\* is twice in a child list, and a node's parent is the one container that holds
\* it (null when none does); an added node is the last child of its container,
\* once, and is no longer in the list of the container it was a child of.
C33_ChildLists ==
  /\ \A c \in Containers : Cardinality(Range(children[c])) = Len(children[c])
  /\ \A n \in Children, c \in Containers : (parent[n] = c) <=> (n \in Range(children[c]))
  /\ c_last.op \in Adding =>
       /\ parent[c_last.n] = c_last.c
       /\ children[c_last.c][Len(children[c_last.c])] = c_last.n
       /\ Len(SelectSeq(children[c_last.c], LAMBDA e : e = c_last.n)) = 1
       /\ \A c \in Containers \ {c_last.c} : c_last.n \notin Range(children[c])

\* a child of the stage was added to the layer, a child of a container was added
\* to it again, and the game has added its message field twice in a row
C33_Witness ==
  /\ c_seen = {"moved", "again"}
  /\ c_last.op = "ShipHit"
  /\ c_last.was = "stage"
  /\ children["stage"] = <<"rock", "messageField">>

\* C34: the pause state is read once, when a fire begins.  Whether the loop calls
\* the tick of a listener depends on the pause state at the beginning of the fire,
\* not on a setPaused a tick of the same fire has made; that fire is a paused tick
\* exactly when it began paused; a call made from a tick does not touch the count
\* of paused ticks, and the next fire reads the state the call has left.
C34_PauseSampled ==
  /\ [](pausedTickers = h_firesPaused)
  /\ [][tpc = "loop" /\ t_i < Len(t_listeners) =>
          ((tpc' = "callback") <=>
             ~((h_pausedAtFire /\ LoopFlag) \/ ~HasTick(t_listeners[t_i + 1])))]_vars
  /\ [][tpc = "callback" => pausedTickers' = pausedTickers]_vars
  /\ [][tpc = "idle" /\ tpc' = "loop" =>
          /\ h_pausedAtFire' = paused
          /\ pausedTickers' = pausedTickers + (IF paused THEN 1 ELSE 0)]_vars

\* the first tick of a fire that began unpaused has paused the ticker, and the
\* tick of the second listener, which is pauseable, is running
C34_Witness ==
  /\ tpc = "callback"
  /\ paused
  /\ ~h_pausedAtFire
  /\ <<"setPaused", 0>> \in h_ops
  /\ Len(h_called) = 2
  /\ t_i = 1
  /\ FlagAt(pauseable, 1)

\* C35: a draw executes, among its commands, the path commands of all the drawing
\* calls made since construction or the last clear, each once and in the order
\* of the calls, a moveTo and a closePath made while no subpath is active included.
C35_ReplayAll ==
  g_last = "draw" => PathPart(g_ctx) = g_recorded

FillMethods ==
  {"beginFill", "beginLinearGradientFill", "beginRadialGradientFill", "beginBitmapFill",
   "endFill"}

StrokeMethods ==
  {"beginStroke", "beginLinearGradientStroke", "beginRadialGradientStroke",
   "beginBitmapStroke", "endStroke"}

\* the property settings among the commands of a list
SettingsPart(list) == SelectSeq(list, LAMBDA c : c.f = "_setProp")

\* C36: a style method replaces its own kind of style only: a fill method leaves
\* the stroke and the line style as they are, a stroke method the fill and the
\* line style, setStrokeStyle the fill and the stroke; no call other than a style
\* method or clear changes a style; and the subpath a draw rebuilds is painted
\* with the styles then set: the fill, and the stroke with the line style.
C36_OwnStyleOnly ==
  /\ [][/\ g_last' \in FillMethods =>
             UNCHANGED <<g_strokeInstructions, g_strokeStyleInstructions>>
        /\ g_last' \in StrokeMethods =>
             UNCHANGED <<g_fillInstructions, g_strokeStyleInstructions>>
        /\ g_last' = "setStrokeStyle" =>
             UNCHANGED <<g_fillInstructions, g_strokeInstructions>>
        /\ g_last' \notin StyleMethods \cup {"clear"} => UNCHANGED graphicsStyles]_vars
  /\ [](g_last = "draw" /\ g_rebuilt =>
          SettingsPart(After(g_ctx, Len(g_oldInstructions))) =
            g_fillInstructions
              \o (IF g_strokeInstructions # <<>>
                  THEN g_strokeInstructions \o g_strokeStyleInstructions ELSE <<>>))

\* a stroke c1 of width 8 is set, a subpath is active, and beginFill(c2) is called
C36_Witness ==
  /\ g_last = "beginFill"
  /\ g_pre.isActive
  /\ g_pre.stroke = "c1"
  /\ g_pre.fill = "none"
  /\ CurFill = "c2"
  /\ CurStroke = "c1"
  /\ g_strokeStyleInstructions # <<>>
  /\ g_strokeStyleInstructions[1].val = "8"

\* C37: over any sequence of polls, moves and enableMouseOver calls, a node that
\* listens to both events never gets two onMouseOver with no onMouseOut between
\* them, and never an onMouseOut that no onMouseOver went before.
C37_OverOutAlternate == o_bad = {}

\* C38: whenever mouseInBounds is true a canvas is bound and mouseX and mouseY
\* are numbers within [0, width) and [0, height) of it.  It is stated of the
\* states a move event leaves, which is when the stage can set the three fields.
C38_InBoundsCoords ==
  s_page # <<>> /\ mouseInBounds =>
    /\ canvas # "null"
    /\ mouseX.k = "num" /\ mouseX.v >= 0 /\ mouseX.v < CanvasW
    /\ mouseY.k = "num" /\ mouseY.v >= 0 /\ mouseY.v < CanvasH

\* C39: a release that comes while the pointer is outside the bounds of the
\* canvas, after a press on a node and a move that left the bounds, dispatches
\* no onClick.
C39_NoClickOutside ==
  (/\ s_last = "up"
   /\ s_relPresses = 1
   /\ s_pressHit # "null"
   /\ ~pointerOver
   /\ ~mouseInBounds) => Clicks = <<>>

\* C40: the hit-test of a release is made with the arguments of the hit-test of
\* the press: when a release follows a press and the display list, the pointer
\* and the polling are such that the hit-test of the press would find the same
\* node again, the hit-test of the release finds that node.
C40_SameHitTest ==
  [][s_last = "down" /\ s_last' = "up" /\ PressTarget = s_pressHit =>
       s_relHit' = s_pressHit]_vars

====
